---------------------------- MODULE Spec2Model ----------------------------
(***************************************************************************)
(* State-machine model of the FI-dashboard sheet updater (src/updater.py). *)
(*                                                                         *)
(* A worksheet is a grid: a sequence of rows, each a sequence of cell      *)
(* strings, as ws.get_all_values() returns it.  Timestamps are <<y, m, d>> *)
(* triples, NaT is << >>.  Inside a DataFrame a missing value is the cell  *)
(* "NaN"; in a sheet it is the empty string.                               *)
(***************************************************************************)
EXTENDS Integers, Sequences, FiniteSets, TLC

VARIABLES
    sheets,     \* tab name -> grid persisted in the spreadsheet
    upstream,   \* what the providers serve right now
    now,        \* today's date (datetime.utcnow())
    pc,         \* the updater main() is at
    run,        \* record of the last updater call (history)
    call        \* the last call of a helper under study: function, argument, result

vars == <<sheets, upstream, now, pc, run, call>>

-----------------------------------------------------------------------------
(* Bounds of the model *)

NumDays == 2        \* days of daily observations the providers may hold

-----------------------------------------------------------------------------
(* Calendar: datetime / pd.Timestamp arithmetic *)

NaT == << >>

IsLeap(y) == (y % 4 = 0 /\ y % 100 # 0) \/ y % 400 = 0

DaysInMonth(y, m) ==
    IF m = 2 THEN (IF IsLeap(y) THEN 29 ELSE 28)
    ELSE IF m \in {4, 6, 9, 11} THEN 30 ELSE 31

Years == {2023, 2024}

\* The timestamps of the model's calendar window.
Calendar ==
    {t \in Years \X (1..12) \X (1..31) : t[3] <= DaysInMonth(t[1], t[2])}

TsLess(a, b) ==
    \/ a[1] < b[1]
    \/ a[1] = b[1] /\ a[2] < b[2]
    \/ a[1] = b[1] /\ a[2] = b[2] /\ a[3] < b[3]

TsLeq(a, b) == a = b \/ TsLess(a, b)

NextDay(t) ==
    IF t[3] < DaysInMonth(t[1], t[2]) THEN <<t[1], t[2], t[3] + 1>>
    ELSE IF t[2] < 12 THEN <<t[1], t[2] + 1, 1>>
    ELSE <<t[1] + 1, 1, 1>>

PrevDay(t) ==
    IF t[3] > 1 THEN <<t[1], t[2], t[3] - 1>>
    ELSE IF t[2] > 1 THEN <<t[1], t[2] - 1, DaysInMonth(t[1], t[2] - 1)>>
    ELSE <<t[1] - 1, 12, 31>>

RECURSIVE AddDays(_, _)
AddDays(t, n) ==
    IF n = 0 THEN t
    ELSE IF n > 0 THEN AddDays(NextDay(t), n - 1)
    ELSE AddDays(PrevDay(t), n + 1)

Pad2(n) == IF n < 10 THEN "0" \o ToString(n) ELSE ToString(n)

\* strftime("%Y-%m-%d")
Strftime(t) ==
    IF t = NaT THEN "NaN"
    ELSE ToString(t[1]) \o "-" \o Pad2(t[2]) \o "-" \o Pad2(t[3])

DateStrings == {Strftime(t) : t \in Calendar}

ParseTable == {<<Strftime(t), t>> : t \in Calendar}

\* pd.to_datetime(s, errors="coerce") / datetime.strptime(s, "%Y-%m-%d") of a
\* sheet cell: the timestamp of a YYYY-MM-DD string, NaT for anything else.
ToDatetime(s) ==
    IF s \in DateStrings THEN (CHOOSE p \in ParseTable : p[1] = s)[2] ELSE NaT

RECURSIVE SortIndex(_)
\* sort_index(): the timestamps of S in ascending order, NaT last.
SortIndex(S) ==
    IF S = {} THEN << >>
    ELSE IF NaT \in S THEN SortIndex(S \ {NaT}) \o <<NaT>>
    ELSE LET lo == CHOOSE t \in S : \A u \in S : TsLeq(t, u)
         IN  <<lo>> \o SortIndex(S \ {lo})

Range(f) == {f[i] : i \in DOMAIN f}

-----------------------------------------------------------------------------
(* Period labels: a label is a sequence of one-character strings.  The      *)
(* labels of the model are made of digits, "-", "Q", "/", " " and letters.  *)

DigitChars == <<"0", "1", "2", "3", "4", "5", "6", "7", "8", "9">>

IsDigit(c) == c \in Range(DigitChars)

DigitVal(c) == (CHOOSE i \in DOMAIN DigitChars : DigitChars[i] = c) - 1

RECURSIVE NumVal(_)
NumVal(s) ==
    IF s = << >> THEN 0
    ELSE NumVal(SubSeq(s, 1, Len(s) - 1)) * 10 + DigitVal(s[Len(s)])

\* str.isdigit()
isdigit(s) == s # << >> /\ \A i \in DOMAIN s : IsDigit(s[i])

RECURSIVE strip(_)
\* str.strip()
strip(s) ==
    IF s = << >> THEN s
    ELSE IF s[1] = " " THEN strip(Tail(s))
    ELSE IF s[Len(s)] = " " THEN strip(SubSeq(s, 1, Len(s) - 1))
    ELSE s

\* int(s): exc when s is no integer literal (ValueError).
int(s) ==
    LET u == strip(s)
    IN  IF isdigit(u) THEN [exc |-> FALSE, val |-> NumVal(u)]
        ELSE IF Len(u) >= 2 /\ u[1] = "-" /\ isdigit(Tail(u))
             THEN [exc |-> FALSE, val |-> 0 - NumVal(Tail(u))]
        ELSE [exc |-> TRUE, val |-> 0]

\* The positions where "-Q" starts in s.
FindDashQ(s) == {i \in 1..(Len(s) - 1) : s[i] = "-" /\ s[i + 1] = "Q"}

\* The years pd.Timestamp holds in full.
TimestampYears == 1678..2261

Raised == [exc |-> TRUE, ts |-> NaT]

Returned(t) == [exc |-> FALSE, ts |-> t]

\* pd.Timestamp(y, m, d): ValueError for a date that does not exist.
Timestamp(y, m, d) ==
    IF y \in TimestampYears /\ m \in 1..12 /\ d >= 1 /\ d <= DaysInMonth(y, m)
    THEN Returned(<<y, m, d>>) ELSE Raised

\* t + pd.offsets.MonthEnd(0): the last day of t's month.
MonthEnd0(t) == <<t[1], t[2], DaysInMonth(t[1], t[2])>>

\* s is DDDD-DD-DD.
IsIsoShape(s) ==
    /\ Len(s) = 10 /\ s[5] = "-" /\ s[8] = "-"
    /\ \A i \in {1, 2, 3, 4, 6, 7, 9, 10} : IsDigit(s[i])

\* pd.Timestamp(s) of a string: the date of an ISO YYYY-MM-DD string, and
\* ValueError for the other strings of the model (no date can be read from
\* "2024-Q1-01" or "2024-13-01").
TimestampOfStr(s) ==
    IF IsIsoShape(s)
    THEN Timestamp(NumVal(SubSeq(s, 1, 4)), NumVal(SubSeq(s, 6, 7)), NumVal(SubSeq(s, 9, 10)))
    ELSE Raised

\* pd.to_datetime(s, errors="coerce") of a label: an ISO date, a YYYY-MM
\* month, a bare year, and NaT for the other strings of the model.
to_datetime(s) ==
    IF IsIsoShape(s) /\ ~TimestampOfStr(s).exc THEN TimestampOfStr(s).ts
    ELSE IF Len(s) = 7 /\ s[5] = "-" /\ isdigit(SubSeq(s, 1, 4))
                       /\ isdigit(SubSeq(s, 6, 7))
         THEN Timestamp(NumVal(SubSeq(s, 1, 4)), NumVal(SubSeq(s, 6, 7)), 1).ts
    ELSE IF Len(s) = 4 /\ isdigit(s) /\ NumVal(s) \in TimestampYears
         THEN <<NumVal(s), 1, 1>>
    ELSE NaT

\* The labels the providers write for a period.
Dig(n) == DigitChars[n + 1]

Dig2(n) == <<Dig(n \div 10), Dig(n % 10)>>

Dig4(n) ==
    <<Dig(n \div 1000), Dig((n \div 100) % 10), Dig((n \div 10) % 10), Dig(n % 10)>>

\* "YYYYMM" (ECOS monthly)
LabelCompact(t) == Dig4(t[1]) \o Dig2(t[2])

\* "YYYY-MM" (SDMX monthly)
LabelMonth(t) == Dig4(t[1]) \o <<"-">> \o Dig2(t[2])

\* "YYYY-MM-DD"
LabelIso(t) == Dig4(t[1]) \o <<"-">> \o Dig2(t[2]) \o <<"-">> \o Dig2(t[3])

\* "YYYY-Qn" (SDMX quarterly)
LabelQuarter(y, q) == Dig4(y) \o <<"-", "Q">> \o <<Dig(q)>>

\* _tp_to_timestamp(tp): [exc, ts]; exc when the call raises.
_tp_to_timestamp(label) ==
    LET tp == strip(label)
    IN  IF Len(tp) = 6 /\ isdigit(tp)
        THEN Timestamp(NumVal(SubSeq(tp, 1, 4)), NumVal(SubSeq(tp, 5, 6)), 1)
        ELSE IF Len(tp) = 8 /\ isdigit(tp)
        THEN Timestamp(NumVal(SubSeq(tp, 1, 4)), NumVal(SubSeq(tp, 5, 6)),
                       NumVal(SubSeq(tp, 7, 8)))
        ELSE IF Len(tp) = 7 /\ tp[5] = "-"
        THEN TimestampOfStr(tp \o <<"-", "0", "1">>)
        ELSE IF FindDashQ(tp) # {}
        THEN IF Cardinality(FindDashQ(tp)) # 1 THEN Raised
             ELSE LET i == CHOOSE j \in FindDashQ(tp) : TRUE
                      y == int(SubSeq(tp, 1, i - 1))
                      q == int(SubSeq(tp, i + 2, Len(tp)))
                  IN  IF y.exc \/ q.exc THEN Raised
                      ELSE LET first == Timestamp(y.val, q.val * 3, 1)
                           IN  IF first.exc THEN Raised
                               ELSE Returned(MonthEnd0(first.ts))
        ELSE Returned(to_datetime(tp))

-----------------------------------------------------------------------------
(* Configuration (a two-series cut of the 16 FRED series) *)

\* DAILY_FRED_SERIES, in dict order: <<series id, column>>.
DAILY_FRED_SERIES == << <<"SOFR", "SOFR">>, <<"DGS2", "US_2Y">> >>

DailyCols == [i \in DOMAIN DAILY_FRED_SERIES |-> DAILY_FRED_SERIES[i][2]]

DailyHeaders == <<"Date">> \o DailyCols

FULL_BACKFILL == FALSE

FULL_START_DATE == <<2006, 1, 1>>

LOOKBACK_DAYS == 30

TAB_DAILY == "data-daily"
TAB_WEEKLY == "data-weekly"
TAB_MONTHLY == "data-monthly"
TAB_QUARTERLY == "data-quarterly"

Tabs == {TAB_DAILY, TAB_WEEKLY, TAB_MONTHLY, TAB_QUARTERLY}

-----------------------------------------------------------------------------
(* The worksheet (gspread) *)

\* A worksheet without values: fresh from add_worksheet, or after ws.clear().
Blank == << >>

\* ws.clear()
Clear(grid) == Blank

\* ws.append_row(row) / ws.append_rows(rows): below the last row with values.
AppendRows(grid, rows) == grid \o rows

\* ws.update("A1", [headers]): overwrites the leading cells of row 1.
WriteHeader(grid, headers) ==
    IF grid = Blank THEN <<headers>>
    ELSE LET old == grid[1]
             n == IF Len(old) > Len(headers) THEN Len(old) ELSE Len(headers)
             row == [i \in 1..n |-> IF i <= Len(headers) THEN headers[i] ELSE old[i]]
         IN  [grid EXCEPT ![1] = row]

\* ws.update(values) on a cleared sheet.
UpdateValues(grid, values) ==
    [i \in 1..(IF Len(grid) > Len(values) THEN Len(grid) ELSE Len(values)) |->
        IF i <= Len(values) THEN values[i] ELSE grid[i]]

NoHeader == << >>
NoDate == ""

\* get_header_and_last_date(ws): [header, last]; header None is NoHeader,
\* last_date None is NoDate.
get_header_and_last_date(values) ==
    IF values = << >> \/ values[1] = << >> \/ values[1][1] # "Date"
    THEN [header |-> NoHeader, last |-> NoDate]
    ELSE IF Len(values) >= 2 /\ values[Len(values)] # << >>
                             /\ values[Len(values)][1] # ""
         THEN [header |-> values[1], last |-> values[Len(values)][1]]
         ELSE [header |-> values[1], last |-> NoDate]

\* The cell of grid row i under the header key c ("" when the row is short).
CellOf(grid, i, c) ==
    LET keys == grid[1]
        P == {p \in DOMAIN keys : keys[p] = c}
    IN  IF P = {} THEN ""
        ELSE LET p == CHOOSE q \in P : \A r \in P : q <= r
             IN  IF p <= Len(grid[i]) THEN grid[i][p] ELSE ""

-----------------------------------------------------------------------------
(* DataFrames: idx the index (a set of timestamps, kept sorted by pandas), *)
(* cols the column labels in order, at the cells.                          *)

NaN == "NaN"

Frame(idx, cols, cell(_, _)) ==
    [idx |-> idx, cols |-> cols,
     at |-> [p \in idx \X Range(cols) |-> cell(p[1], p[2])]]

\* pd.DataFrame()
NoFrame == [idx |-> {}, cols |-> << >>, at |-> << >>]

\* pd.DataFrame(columns=cols)
EmptyFrame(cols) == [idx |-> {}, cols |-> cols, at |-> << >>]

\* DataFrame.empty: no rows or no columns.
IsEmpty(df) == df.idx = {} \/ df.cols = << >>

\* df.at[t, c] with NaN for a cell outside the frame.
At(df, t, c) ==
    IF t \in df.idx /\ c \in Range(df.cols) THEN df.at[<<t, c>>] ELSE NaN

\* s.to_frame(name=col): s is [idx, at], the series of one identifier.
ToFrame(s, col) == Frame(s.idx, <<col>>, LAMBDA t, c : s.at[t])

\* a.join(b, how="outer"): union of the indexes, columns of a then of b.
JoinOuter(a, b) ==
    Frame(a.idx \cup b.idx, a.cols \o b.cols,
          LAMBDA t, c : IF c \in Range(a.cols) THEN At(a, t, c) ELSE At(b, t, c))

\* The join idiom "tmp if df.empty else df.join(tmp, how='outer')".
JoinInto(df, tmp) == IF IsEmpty(df) THEN tmp ELSE JoinOuter(df, tmp)

\* Mutant: the fetched cell wins wherever the fetch has one.
CombineFirst_FetchedWins(a, b) ==
    Frame(a.idx \cup b.idx,
          a.cols \o SelectSeq(b.cols, LAMBDA c : c \notin Range(a.cols)),
          LAMBDA t, c : IF At(b, t, c) # NaN THEN At(b, t, c) ELSE At(a, t, c))

\* a.combine_first(b): the cell of a unless it is missing, then the cell of b.
CombineFirst(a, b) ==
    Frame(a.idx \cup b.idx,
          a.cols \o SelectSeq(b.cols, LAMBDA c : c \notin Range(a.cols)),
          LAMBDA t, c : IF At(a, t, c) # NaN THEN At(a, t, c) ELSE At(b, t, c))

\* Mutant: the blank cells of the sheet are left as values.
ReplaceBlank_Skipped(df) == df

\* df[c].replace("", pd.NA) on every column
ReplaceBlank(df) ==
    Frame(df.idx, df.cols, LAMBDA t, c : IF df.at[<<t, c>>] = "" THEN NaN ELSE df.at[<<t, c>>])

\* Mutant: the frame keeps the columns it has, in the order they were joined.
Reindex_Keep(df, cols) == df

\* Adds the missing columns as NaN and selects cols, in order.
Reindex(df, cols) == Frame(df.idx, cols, LAMBDA t, c : At(df, t, c))

\* fillna(""): a missing value is written as the empty marker.
Fillna(x) == IF x = NaN THEN "" ELSE x

\* combined[combined.index >= start]: a NaT label compares false.
FilterFrom(df, start) ==
    IF start = NaT THEN Frame({}, df.cols, LAMBDA t, c : NaN)
    ELSE Frame({t \in df.idx : t # NaT /\ TsLeq(start, t)}, df.cols,
               LAMBDA t, c : df.at[<<t, c>>])

\* Mutant: the dates are written one day late.
ToRows_Shifted(df) ==
    LET order == SortIndex(df.idx)
    IN  [i \in DOMAIN order |->
            <<IF order[i] = NaT THEN "" ELSE Strftime(NextDay(order[i]))>> \o
            [j \in DOMAIN df.cols |-> Fillna(df.at[<<order[i], df.cols[j]>>])]]

\* reset_index(), Date -> strftime, fillna(""), values.tolist()
ToRows(df) ==
    LET order == SortIndex(df.idx)
    IN  [i \in DOMAIN order |->
            <<Fillna(Strftime(order[i]))>> \o
            [j \in DOMAIN df.cols |-> Fillna(df.at[<<order[i], df.cols[j]>>])]]

\* pd.DataFrame(ws.get_all_records()), Date parsed, rows without a date
\* dropped, indexed by Date and sorted (update_daily).
ExistingFrame(grid, headers) ==
    IF Len(grid) < 2 THEN EmptyFrame(Tail(headers))
    ELSE IF "Date" \notin Range(grid[1]) THEN EmptyFrame(Tail(headers))
    ELSE LET keys == SelectSeq(grid[1], LAMBDA c : c # "Date")
             dated == {<<ToDatetime(CellOf(grid, i, "Date")), i>> : i \in 2..Len(grid)}
             idx == {p[1] : p \in dated} \ {NaT}
             rowOf(t) == (CHOOSE p \in dated : p[1] = t)[2]
         IN  Frame(idx, keys, LAMBDA t, c : CellOf(grid, rowOf(t), c))

-----------------------------------------------------------------------------
(* FRED (daily) *)

DailyBase == <<2024, 2, 28>>

\* The k-th day on which FRED may hold an observation.
DayAt(k) == AddDays(DailyBase, k - 1)

\* The first print of an observation and its revision.
Revs == {0, 1}

\* What FRED holds of one series: down (the request raises), or the
\* observations of days lo..hi (none when lo > hi), all at revision rev.
FredStates ==
    {[up |-> FALSE, lo |-> 1, hi |-> 0, rev |-> 0],
     [up |-> TRUE, lo |-> 1, hi |-> 0, rev |-> 0]}
    \cup {st \in [up : {TRUE}, lo : 1..NumDays, hi : 1..NumDays, rev : Revs] :
            st.lo <= st.hi}

\* fred.get_series(sid, observation_start=start), sorted and re-indexed.
get_series(st, start) ==
    LET ks == {k \in st.lo..st.hi : TsLeq(start, DayAt(k))}
    IN  [idx |-> {DayAt(k) : k \in ks},
         at |-> [t \in {DayAt(k) : k \in ks} |-> ToString(st.rev)]]

\* pull_start of update_daily
PullStart(today) ==
    IF FULL_BACKFILL THEN FULL_START_DATE ELSE AddDays(today, 0 - LOOKBACK_DAYS)

RECURSIVE PullDaily(_, _, _, _)
\* The fetch loop of update_daily from series i on: a series that raises or
\* is empty is skipped, the others are outer-joined into df_pulled.
PullDaily(i, fred, start, df) ==
    IF i > Len(DAILY_FRED_SERIES) THEN df
    ELSE LET sid == DAILY_FRED_SERIES[i][1]
             col == DAILY_FRED_SERIES[i][2]
         IN  IF ~fred[sid].up THEN PullDaily(i + 1, fred, start, df)
             ELSE LET s == get_series(fred[sid], start)
                  IN  IF s.idx = {} THEN PullDaily(i + 1, fred, start, df)
                      ELSE PullDaily(i + 1, fred, start, JoinInto(df, ToFrame(s, col)))

df_pulled(fred, today) == PullDaily(1, fred, PullStart(today), NoFrame)

\* df_existing of update_daily, read after the header check.
df_existing(grid) ==
    IF FULL_BACKFILL THEN EmptyFrame(DailyCols) ELSE ExistingFrame(grid, DailyHeaders)

\* The merge of update_daily: existing cells win unless missing, the fetched
\* cells fill the rest, the frame is brought to the header's columns.
MergeDaily(existing, pulled) ==
    Reindex(CombineFirst(ReplaceBlank(existing), pulled), DailyCols)

\* The API calls of an updater that may raise.
Calls ==
    {"read", "clear_header", "write_header", "records", "clear", "write", "append"}

NoFail == "none"

Outcome(grid, status, reinit, committed, log) ==
    [grid |-> grid, status |-> status, reinit |-> reinit,
     committed |-> committed, log |-> log]

\* update_daily(fred, sh) on the grid of data-daily; fail names the API call
\* that raises in this run, if any.
update_daily(grid, fred, today, fail) ==
    LET hs == get_header_and_last_date(grid)
        reinit == hs.header # DailyHeaders
        g1 == IF reinit THEN AppendRows(Clear(grid), <<DailyHeaders>>) ELSE grid
        pulled == df_pulled(fred, today)
        failed == {"load_failed:" \o DAILY_FRED_SERIES[i][1] :
                     i \in {j \in DOMAIN DAILY_FRED_SERIES :
                              ~fred[DAILY_FRED_SERIES[j][1]].up}}
        merged == MergeDaily(df_existing(g1), pulled)
        values == <<DailyHeaders>> \o ToRows(merged)
    IN  IF fail = "read" THEN Outcome(grid, "raised", FALSE, FALSE, {})
        ELSE IF reinit /\ fail = "clear_header"
             THEN Outcome(grid, "raised", FALSE, FALSE, {})
        ELSE IF reinit /\ fail = "write_header"
             THEN Outcome(Clear(grid), "raised", TRUE, FALSE, {})
        ELSE IF fail = "records" THEN Outcome(g1, "raised", reinit, FALSE, {})
        ELSE IF IsEmpty(pulled)
             THEN Outcome(g1, "returned", reinit, FALSE,
                          {"pulling", "no_data"} \cup failed)
        ELSE IF fail = "clear"
             THEN Outcome(g1, "raised", reinit, FALSE, {"pulling"} \cup failed)
        ELSE IF fail = "write"
             THEN Outcome(Clear(g1), "raised", reinit, FALSE, {"pulling"} \cup failed)
        ELSE Outcome(UpdateValues(Clear(g1), values), "returned", reinit, TRUE,
                     {"pulling", "rewritten"} \cup failed)

-----------------------------------------------------------------------------
(* OFR (weekly) *)

WEEKLY_OFR_MNEMONICS ==
    << <<"NYPD-PD_AFtD_T-A", "UST_fails_to_deliver">>,
       <<"NYPD-PD_AFtD_AG-A", "AgencyGSE_fails_to_deliver">> >>

WeeklyCols == [i \in DOMAIN WEEKLY_OFR_MNEMONICS |-> WEEKLY_OFR_MNEMONICS[i][2]]

WeeklyHeaders == <<"Date">> \o WeeklyCols

WeeklyMnems == {WEEKLY_OFR_MNEMONICS[i][1] : i \in DOMAIN WEEKLY_OFR_MNEMONICS}

WeeklyBase == <<2024, 2, 23>>

\* The k-th week's reporting date.
WeekAt(k) == AddDays(WeeklyBase, 7 * (k - 1))

Weeks == {1, 2}

\* The runs of periods lo..hi within S, and the run without a period.
Spans(S) ==
    {[lo |-> 1, hi |-> 0]} \cup {sp \in [lo : S, hi : S] : sp.lo <= sp.hi}

\* What the OFR endpoint answers: an error status, or per mnemonic the
\* aggregation of the weeks lo..hi (no aggregation when lo > hi).
OfrStates ==
    {[up |-> FALSE, agg |-> [m \in WeeklyMnems |-> [lo |-> 1, hi |-> 0]]]}
    \cup [up : {TRUE}, agg : [WeeklyMnems -> Spans(Weeks)]]

\* pick_start_date(last_date_str, default_start)
pick_start_date(last, default) ==
    IF last = NoDate THEN default
    ELSE IF ToDatetime(last) = NaT THEN default
    ELSE NextDay(ToDatetime(last))

RECURSIVE ConcatOfr(_, _, _)
\* pd.concat(frames, axis=1) over the mnemonics that have an aggregation.
ConcatOfr(i, ofr, df) ==
    IF i > Len(WEEKLY_OFR_MNEMONICS) THEN df
    ELSE LET mnem == WEEKLY_OFR_MNEMONICS[i][1]
             sp == ofr.agg[mnem]
             dates == {WeekAt(k) : k \in sp.lo..sp.hi}
             tmp == Frame(dates, <<mnem>>,
                          LAMBDA t, c : ToString(10 * i
                              + (CHOOSE k \in sp.lo..sp.hi : WeekAt(k) = t)))
         IN  IF dates = {} THEN ConcatOfr(i + 1, ofr, df)
             ELSE ConcatOfr(i + 1, ofr, JoinInto(df, tmp))

\* load_ofr_multifull(mnemonics, start_date): [exc, df]
load_ofr_multifull(ofr, start) ==
    IF ~ofr.up THEN [exc |-> TRUE, df |-> NoFrame]
    ELSE LET out == ConcatOfr(1, ofr, NoFrame)
         IN  IF out.cols = << >> THEN [exc |-> FALSE, df |-> NoFrame]
             ELSE [exc |-> FALSE, df |-> FilterFrom(out, start)]

\* df.rename(columns=mapping): the labels of cols that are keys of mapping
\* are replaced.
Rename(df, mapping) ==
    LET new(c) == IF \E i \in DOMAIN mapping : mapping[i][1] = c
                  THEN mapping[CHOOSE i \in DOMAIN mapping : mapping[i][1] = c][2]
                  ELSE c
        old(c) == CHOOSE j \in DOMAIN df.cols : new(df.cols[j]) = c
    IN  Frame(df.idx, [j \in DOMAIN df.cols |-> new(df.cols[j])],
              LAMBDA t, c : df.at[<<t, df.cols[old(c)]>>])

\* df[cols]: KeyError when a label is not in the frame.
Select(df, cols) ==
    IF Range(cols) \subseteq Range(df.cols)
    THEN [exc |-> FALSE, df |-> Frame(df.idx, cols, LAMBDA t, c : df.at[<<t, c>>])]
    ELSE [exc |-> TRUE, df |-> NoFrame]

WEEKLY_DEFAULT_START == <<2012, 1, 1>>

\* The header check of the appending updaters: a sheet whose header is not
\* the target is cleared and given the target header.
Reinit(grid, headers) == WriteHeader(Clear(grid), headers)

\* update_weekly_ofr(sh) on the grid of data-weekly.
update_weekly_ofr(grid, ofr, fail) ==
    LET hs == get_header_and_last_date(grid)
        reinit == hs.header # WeeklyHeaders
        g1 == IF reinit THEN Reinit(grid, WeeklyHeaders) ELSE grid
        start == pick_start_date(hs.last, WEEKLY_DEFAULT_START)
        loaded == load_ofr_multifull(ofr, start)
        sel == Select(Rename(loaded.df, WEEKLY_OFR_MNEMONICS), WeeklyCols)
        rows == ToRows(sel.df)
    IN  IF fail = "read" THEN Outcome(grid, "raised", FALSE, FALSE, {})
        ELSE IF reinit /\ fail = "clear_header"
             THEN Outcome(grid, "raised", FALSE, FALSE, {})
        ELSE IF reinit /\ fail = "write_header"
             THEN Outcome(Clear(grid), "raised", TRUE, FALSE, {})
        ELSE IF loaded.exc
             THEN Outcome(g1, "returned", reinit, FALSE, {"start_date", "failed"})
        ELSE IF IsEmpty(loaded.df)
             THEN Outcome(g1, "returned", reinit, FALSE, {"start_date", "no_new_rows"})
        ELSE IF sel.exc \/ fail = "append"
             THEN Outcome(g1, "returned", reinit, FALSE, {"start_date", "failed"})
        ELSE Outcome(AppendRows(g1, rows), "returned", reinit, TRUE,
                     {"start_date", "appended"})

-----------------------------------------------------------------------------
(* OECD, ECB and ECOS (monthly) *)

OECD_LOC == << <<"US", "USA">>, <<"EA", "EA20">>, <<"KR", "KOR">> >>

ccy_list == [i \in DOMAIN OECD_LOC |-> OECD_LOC[i][1]]

Areas == {OECD_LOC[i][2] : i \in DOMAIN OECD_LOC}

ECOS_POLICY_ITEM == << <<"US", "US">>, <<"KR", "KR">> >>

EcosItems == {ECOS_POLICY_ITEM[i][2] : i \in DOMAIN ECOS_POLICY_ITEM}

BOK_API_KEY == "key"

MonthlySuffixes == <<"_CPI_YoY", "_CPI_MoM", "_Unemployment", "_PolicyRate">>

MonthlyCols ==
    [j \in 1..(4 * Len(ccy_list)) |->
        ccy_list[((j - 1) \div 4) + 1] \o MonthlySuffixes[((j - 1) % 4) + 1]]

MonthlyHeaders == <<"Date">> \o MonthlyCols

\* The strings that read as a number.
Numbers == {ToString(n) : n \in 0..99}

\* pd.to_numeric(v, errors="coerce"); float(v) raises where this is NaN.
to_numeric(v) == IF v \in Numbers THEN v ELSE NaN

NoSeries == [idx |-> {}, at |-> << >>]

\* The series of the observations <<label, ..., value>> of rows picked by
\* keep, dated by parse; of two observations of one date the later row stays.
SeriesOf(rows, keep, parse(_), val(_)) ==
    LET idx == {parse(rows[i]) : i \in keep}
        last(t) == CHOOSE i \in keep :
                      /\ parse(rows[i]) = t
                      /\ \A j \in keep : parse(rows[j]) = t => j <= i
    IN  [idx |-> idx, at |-> [t \in idx |-> val(rows[last(t)])]]

\* fetch_oecd_g20_cpi_rate_one(area, start, end, code): [exc, s].  The
\* observations without a number are dropped; a label that does not parse
\* leaves its observation under NaT.  (The answers of the model hold one
\* observation per label.)
fetch_oecd_g20_cpi_rate_one(resp) ==
    IF ~resp.up THEN [exc |-> TRUE, s |-> NoSeries]
    ELSE [exc |-> FALSE,
          s |-> SeriesOf(resp.rows,
                         {i \in DOMAIN resp.rows : to_numeric(resp.rows[i][2]) # NaN},
                         LAMBDA r : to_datetime(r[1]),
                         LAMBDA r : to_numeric(r[2]))]

MOM_CODES == <<"GM", "GP", "GR">>

RECURSIVE FirstMom_Last(_, _)
\* Mutant: every candidate is tried and the last that answers is kept.
FirstMom_Last(i, byCode) ==
    IF i > Len(MOM_CODES) THEN NoSeries
    ELSE LET r == fetch_oecd_g20_cpi_rate_one(byCode[MOM_CODES[i]])
             rest == FirstMom_Last(i + 1, byCode)
         IN  IF rest.idx # {} THEN rest
             ELSE IF ~r.exc /\ r.s.idx # {} THEN r.s ELSE NoSeries

RECURSIVE FirstMom(_, _)
\* The MoM series of one country: the first of GM, GP, GR that answers with
\* observations.
FirstMom(i, byCode) ==
    IF i > Len(MOM_CODES) THEN NoSeries
    ELSE LET r == fetch_oecd_g20_cpi_rate_one(byCode[MOM_CODES[i]])
         IN  IF ~r.exc /\ r.s.idx # {} THEN r.s ELSE FirstMom(i + 1, byCode)

RECURSIVE CpiLoop(_, _, _)
\* Mutant: a country whose YoY request raises ends the CPI block with nothing.
CpiLoop_Abort(i, cpi, tmp) ==
    IF i > Len(ccy_list) THEN tmp
    ELSE LET ccy == ccy_list[i]
             area == OECD_LOC[i][2]
             yoy == fetch_oecd_g20_cpi_rate_one(cpi[area]["GY"])
             t1 == IF yoy.s.idx # {}
                   THEN JoinInto(tmp, ToFrame(yoy.s, ccy \o "_CPI_YoY")) ELSE tmp
             mom == FirstMom(1, cpi[area])
             t2 == IF mom.idx # {}
                   THEN JoinInto(t1, ToFrame(mom, ccy \o "_CPI_MoM")) ELSE t1
         IN  IF yoy.exc THEN NoFrame ELSE CpiLoop(i + 1, cpi, t2)

\* The CPI block of update_monthly_rates from country i on.
CpiLoop(i, cpi, tmp) ==
    IF i > Len(ccy_list) THEN tmp
    ELSE LET ccy == ccy_list[i]
             area == OECD_LOC[i][2]
             yoy == fetch_oecd_g20_cpi_rate_one(cpi[area]["GY"])
             t1 == IF ~yoy.exc /\ yoy.s.idx # {}
                   THEN JoinInto(tmp, ToFrame(yoy.s, ccy \o "_CPI_YoY")) ELSE tmp
             mom == FirstMom(1, cpi[area])
             t2 == IF mom.idx # {}
                   THEN JoinInto(t1, ToFrame(mom, ccy \o "_CPI_MoM")) ELSE t1
         IN  CpiLoop(i + 1, cpi, t2)

\* The unemployment block: the rows <<label, area, value>> dated, restricted
\* to the configured areas, pivoted by area (the last number of a cell), one
\* column per country whose area has a number.
UnemploymentFrame(rows) ==
    LET keep == {i \in DOMAIN rows :
                    /\ to_datetime(rows[i][1]) # NaT
                    /\ rows[i][2] \in Areas
                    /\ to_numeric(rows[i][3]) # NaN}
        idx == {to_datetime(rows[i][1]) : i \in keep}
        has == {rows[i][2] : i \in keep}
        cell(t, a) ==
            LET I == {i \in keep : to_datetime(rows[i][1]) = t /\ rows[i][2] = a}
            IN  IF I = {} THEN NaN
                ELSE to_numeric(rows[CHOOSE i \in I : \A j \in I : j <= i][3])
        with == SelectSeq([i \in DOMAIN OECD_LOC |-> i],
                          LAMBDA i : OECD_LOC[i][2] \in has)
        areaOf(c) == OECD_LOC[CHOOSE i \in DOMAIN OECD_LOC :
                                 OECD_LOC[i][1] \o "_Unemployment" = c][2]
    IN  Frame(idx, [j \in DOMAIN with |-> OECD_LOC[with[j]][1] \o "_Unemployment"],
              LAMBDA t, c : cell(t, areaOf(c)))

\* ecb_get_series_csv(flow, key, start_period): [exc, s]
ecb_get_series_csv(resp) ==
    IF ~resp.up THEN [exc |-> TRUE, s |-> NoSeries]
    ELSE [exc |-> FALSE,
          s |-> SeriesOf(resp.rows,
                         {i \in DOMAIN resp.rows :
                             /\ to_datetime(resp.rows[i][1]) # NaT
                             /\ to_numeric(resp.rows[i][2]) # NaN},
                         LAMBDA r : to_datetime(r[1]),
                         LAMBDA r : to_numeric(r[2]))]

MonthNo(t) == t[1] * 12 + (t[2] - 1)

\* s.resample("M").last(): one bin per month from the first to the last
\* observation, labelled with the month's last day, holding the month's last
\* observation (NaN for a month without one).
ResampleMonthLast(s) ==
    LET nos == {MonthNo(t) : t \in s.idx}
        lo == CHOOSE n \in nos : \A m \in nos : n <= m
        hi == CHOOSE n \in nos : \A m \in nos : m <= n
        idx == {MonthEnd0(<<n \div 12, (n % 12) + 1, 1>>) : n \in lo..hi}
        cell(e) ==
            LET T == {t \in s.idx : MonthNo(t) = MonthNo(e)}
            IN  IF T = {} THEN NaN
                ELSE s.at[CHOOSE t \in T : \A u \in T : TsLeq(u, t)]
    IN  [idx |-> idx, at |-> [e \in idx |-> cell(e)]]

\* ecos_stat_search(api_key, stat_code, cycle, start, end, item): [exc, s].
\* A row without a TIME is skipped, then the TIME is parsed (an exception of
\* _tp_to_timestamp leaves the function), a NaT or a value that is no number
\* skips the row.
ecos_stat_search(resp) ==
    IF BOK_API_KEY = "" THEN [exc |-> FALSE, s |-> NoSeries]
    ELSE IF ~resp.up THEN [exc |-> TRUE, s |-> NoSeries]
    ELSE LET live == {i \in DOMAIN resp.rows : resp.rows[i][1] # << >>}
         IN  IF \E i \in live : _tp_to_timestamp(resp.rows[i][1]).exc
             THEN [exc |-> TRUE, s |-> NoSeries]
             ELSE [exc |-> FALSE,
                   s |-> SeriesOf(resp.rows,
                            {i \in live :
                                /\ _tp_to_timestamp(resp.rows[i][1]).ts # NaT
                                /\ to_numeric(resp.rows[i][2]) # NaN},
                            LAMBDA r : _tp_to_timestamp(r[1]).ts,
                            LAMBDA r : to_numeric(r[2]))]

RECURSIVE EcosLoop(_, _, _)
\* The ECOS block from item i on: [exc, df]; an empty series is skipped, an
\* exception leaves the block.
EcosLoop(i, ecos, tmp) ==
    IF i > Len(ECOS_POLICY_ITEM) THEN [exc |-> FALSE, df |-> tmp]
    ELSE LET r == ecos_stat_search(ecos[ECOS_POLICY_ITEM[i][2]])
             col == ECOS_POLICY_ITEM[i][1] \o "_PolicyRate"
         IN  IF r.exc THEN [exc |-> TRUE, df |-> NoFrame]
             ELSE IF r.s.idx = {} THEN EcosLoop(i + 1, ecos, tmp)
             ELSE EcosLoop(i + 1, ecos, JoinInto(tmp, ToFrame(r.s, col)))

\* Mutant: every fetched row is appended, whatever the watermark.
AfterLast_All(df, last) == df

\* The "Append only rows strictly after last_date" filter.
AfterLast(df, last) ==
    IF last = NoDate THEN df
    ELSE IF ToDatetime(last) = NaT THEN FilterFrom(df, NaT)
    ELSE FilterFrom(df, NextDay(ToDatetime(last)))

\* combined after the CPI, unemployment, ECB and ECOS blocks, each block
\* inside its own try: [df, log].
MonthlyCombined(up) ==
    LET AddCpi(tmp) == IF IsEmpty(tmp) THEN NoFrame ELSE tmp
        AddUne(c, une) == IF IsEmpty(une) THEN c ELSE JoinInto(c, une)
        AddEcb(c, dfr, dfr_m) ==
            IF dfr.exc \/ dfr.s.idx = {} THEN c
            ELSE JoinInto(c, Frame(dfr_m.idx, <<"EA_PolicyRate", "DE_PolicyRate">>,
                                   LAMBDA t, col : dfr_m.at[t]))
        AddEcos(c, pol) == IF pol.exc \/ IsEmpty(pol.df) THEN c ELSE JoinInto(c, pol.df)
        Blocks(dfr, pol) ==
            [df |-> AddEcos(AddEcb(AddUne(AddCpi(CpiLoop(1, up.cpi, NoFrame)),
                                          IF up.une.up THEN UnemploymentFrame(up.une.rows)
                                          ELSE NoFrame),
                                   dfr, ResampleMonthLast(dfr.s)),
                            pol),
             log |-> {"cpi_ok"}
                     \cup (IF up.une.up THEN {"unemployment_ok"}
                           ELSE {"unemployment_failed"})
                     \cup (IF dfr.exc THEN {"ecb_failed"} ELSE {"ecb_ok"})
                     \cup (IF pol.exc THEN {"ecos_failed"} ELSE {"ecos_ok"})]
    IN  Blocks(ecb_get_series_csv(up.ecb),
               IF BOK_API_KEY = "" THEN [exc |-> FALSE, df |-> NoFrame]
               ELSE EcosLoop(1, up.ecos, NoFrame))

\* The end of the appending updaters: nothing to do when combined is empty or
\* holds no row after last_date, else the rows are appended under cols.
Finalize(g1, combined, last, cols, reinit, log, fail) ==
    IF IsEmpty(combined)
    THEN Outcome(g1, "returned", reinit, FALSE, log \cup {"combined_empty"})
    ELSE IF IsEmpty(AfterLast(combined, last))
    THEN Outcome(g1, "returned", reinit, FALSE, log \cup {"up_to_date"})
    ELSE IF fail = "append" THEN Outcome(g1, "raised", reinit, FALSE, log)
    ELSE Outcome(AppendRows(g1, ToRows(Reindex(AfterLast(combined, last), cols))),
                 "returned", reinit, TRUE, log \cup {"appended"})

\* update_monthly_rates(sh) on the grid of data-monthly.
update_monthly_rates(grid, up, fail) ==
    LET hs == get_header_and_last_date(grid)
        reinit == hs.header # MonthlyHeaders
        g1 == IF reinit THEN Reinit(grid, MonthlyHeaders) ELSE grid
        c == MonthlyCombined(up)
    IN  IF fail = "read" THEN Outcome(grid, "raised", FALSE, FALSE, {})
        ELSE IF reinit /\ fail = "clear_header"
             THEN Outcome(grid, "raised", FALSE, FALSE, {})
        ELSE IF reinit /\ fail = "write_header"
             THEN Outcome(Clear(grid), "raised", TRUE, FALSE, {})
        ELSE Finalize(g1, c.df, hs.last, MonthlyCols, reinit,
                      {"start_period"} \cup c.log, fail)

-----------------------------------------------------------------------------
(* OECD quarterly national accounts *)

QuarterlySuffixes == <<"_RealGDP_YoY", "_RealGDP_QoQ">>

QuarterlyCols ==
    [j \in 1..(2 * Len(ccy_list)) |->
        ccy_list[((j - 1) \div 2) + 1] \o QuarterlySuffixes[((j - 1) % 2) + 1]]

QuarterlyHeaders == <<"Date">> \o QuarterlyCols

UpperChars == <<"Y", "Q", "A">>
LowerChars == <<"y", "q", "a">>

\* str.lower() on the letters of the model's keys.
lower(s) ==
    [i \in DOMAIN s |->
        IF s[i] \in Range(UpperChars)
        THEN LowerChars[CHOOSE j \in DOMAIN UpperChars : UpperChars[j] = s[i]]
        ELSE s[i]]

\* pat in s
Contains(s, pat) ==
    \E i \in 1..(Len(s) - Len(pat) + 1) : SubSeq(s, i, i + Len(pat) - 1) = pat

NoKind == ""

\* _map_kind(k): "YoY", "QoQ" or None.
_map_kind(k) ==
    LET kl == lower(k)
    IN  IF \/ Contains(kl, <<"y", "o", "y">>) \/ Contains(kl, <<"y", "e", "a", "r">>)
           \/ Contains(kl, <<"y", "/", "y">>) \/ Contains(kl, <<"a", "/", "a">>)
        THEN "YoY"
        ELSE IF \/ Contains(kl, <<"q", "o", "q">>)
                \/ Contains(kl, <<"q", "u", "a", "r", "t", "e", "r">>)
                \/ Contains(kl, <<"q", "/", "q">>)
        THEN "QoQ"
        ELSE NoKind

\* pivot_table(index="Date", columns=area, aggfunc="last") of the rows
\* <<date, area, key, value>> in keep, then one column per country whose area
\* has a number, named by kind.
GdpFrame(rows, keep, kind) ==
    LET idx == {rows[i][1] : i \in keep}
        has == {rows[i][2] : i \in keep}
        cell(t, a) ==
            LET I == {i \in keep : rows[i][1] = t /\ rows[i][2] = a}
            IN  IF I = {} THEN NaN
                ELSE to_numeric(rows[CHOOSE i \in I : \A j \in I : j <= i][4])
        with == SelectSeq([i \in DOMAIN OECD_LOC |-> i],
                          LAMBDA i : OECD_LOC[i][2] \in has)
        name(i) == OECD_LOC[i][1] \o "_RealGDP_" \o kind
        areaOf(c) == OECD_LOC[CHOOSE i \in DOMAIN OECD_LOC : name(i) = c][2]
    IN  Frame(idx, [j \in DOMAIN with |-> name(with[j])],
              LAMBDA t, c : cell(t, areaOf(c)))

RECURSIVE GdpGroups(_, _, _, _)
\* The loop over df.groupby(rate_dim) from the i-th key on (keys in sorted
\* order): [exc, df]; a join that meets a column it already has raises, and
\* combined stays as the groups before left it.
GdpGroups(i, keys, rows, combined) ==
    IF i > Len(keys) THEN combined
    ELSE LET kind == _map_kind(keys[i])
             keep == {r \in DOMAIN rows : rows[r][3] = keys[i]
                                          /\ to_numeric(rows[r][4]) # NaN}
             tmp == GdpFrame(rows, keep, kind)
         IN  IF kind = NoKind \/ IsEmpty(tmp)
             THEN GdpGroups(i + 1, keys, rows, combined)
             ELSE IF ~IsEmpty(combined)
                      /\ Range(tmp.cols) \cap Range(combined.cols) # {}
             THEN combined
             ELSE GdpGroups(i + 1, keys, rows, JoinInto(combined, tmp))

\* The fetch of update_quarterly_rates inside its try: combined.  resp is
\* [up, dim, keys, rows]: rows of <<label, area, key, value>>, dim whether the
\* answer has a rate dimension, keys its values in sorted order.
QuarterlyCombined(resp) ==
    IF ~resp.up THEN NoFrame
    ELSE IF \E i \in DOMAIN resp.rows : _tp_to_timestamp(resp.rows[i][1]).exc
    THEN NoFrame
    ELSE LET dated == [i \in DOMAIN resp.rows |->
                         <<_tp_to_timestamp(resp.rows[i][1]).ts, resp.rows[i][2],
                           resp.rows[i][3], resp.rows[i][4]>>]
             rows == SelectSeq(dated, LAMBDA r : r[1] # NaT /\ r[2] \in Areas)
         IN  IF resp.dim THEN GdpGroups(1, resp.keys, rows, NoFrame)
             ELSE GdpFrame(rows, {r \in DOMAIN rows : to_numeric(rows[r][4]) # NaN},
                           "QoQ")

\* update_quarterly_rates(sh) on the grid of data-quarterly.
update_quarterly_rates(grid, resp, fail) ==
    LET hs == get_header_and_last_date(grid)
        reinit == hs.header # QuarterlyHeaders
        g1 == IF reinit THEN Reinit(grid, QuarterlyHeaders) ELSE grid
    IN  IF fail = "read" THEN Outcome(grid, "raised", FALSE, FALSE, {})
        ELSE IF reinit /\ fail = "clear_header"
             THEN Outcome(grid, "raised", FALSE, FALSE, {})
        ELSE IF reinit /\ fail = "write_header"
             THEN Outcome(Clear(grid), "raised", TRUE, FALSE, {})
        ELSE Finalize(g1, QuarterlyCombined(resp), hs.last, QuarterlyCols, reinit,
                      {"start_period"}, fail)

-----------------------------------------------------------------------------
(* What the providers may answer *)

Down == [up |-> FALSE, rows |-> << >>]

Empty == [up |-> TRUE, rows |-> << >>]

Data(rows) == [up |-> TRUE, rows |-> rows]

\* A label no parser reads, and a compact label of a month that does not
\* exist.
LabelGarbage == <<"n", "/", "a">>

LabelNoMonth == <<"2", "0", "2", "4", "1", "3">>

Months == {1, 2}

\* The rows of a sheet beyond which no further run is followed.
MaxRows == 2 * Cardinality(Months)

MonthAt(k) == <<2024, k, 1>>

\* The observations of the months of span sp, labelled by label, with the
\* values base + month.
Obs(sp, label(_), base) ==
    [j \in 1..(sp.hi - sp.lo + 1) |->
        <<label(MonthAt(sp.lo + j - 1)), ToString(base + sp.lo + j - 1)>>]

FullSpan == [lo |-> 1, hi |-> 2]

CodeBase(code) ==
    IF code = "GY" THEN 10 ELSE IF code = "GM" THEN 20
    ELSE IF code = "GP" THEN 30 ELSE 40

\* The answers to a CPI request for growth code: an error, no observation,
\* the months of a span, or a month and an observation under a garbage label.
CpiResps(code) ==
    {Down, Empty}
    \cup {Data(Obs(sp, LabelMonth, CodeBase(code))) :
            sp \in Spans(Months) \ {[lo |-> 1, hi |-> 0]}}
    \cup {Data(Obs([lo |-> 1, hi |-> 1], LabelMonth, CodeBase(code))
               \o << <<LabelGarbage, "9">> >>)}

CpiFull(code) == Data(Obs(FullSpan, LabelMonth, CodeBase(code)))

\* The answers of the MoM codes GM, GP, GR that make the fallback go its ways.
MomPatterns ==
    {<<CpiFull("GM"), Down, Down>>, <<Empty, CpiFull("GP"), Down>>,
     <<Down, Empty, CpiFull("GR")>>, <<Down, Down, Down>>, <<Empty, Empty, Empty>>}

CpiOfArea(gy, mom) == [GY |-> gy, GM |-> mom[1], GP |-> mom[2], GR |-> mom[3]]

CpiAllFull == CpiOfArea(CpiFull("GY"), <<CpiFull("GM"), Down, Down>>)

CpiAllDown == CpiOfArea(Down, <<Down, Down, Down>>)

\* The answers of one country that make each path of the CPI block happen.
CpiAnswers ==
    {CpiOfArea(gy, <<CpiFull("GM"), Down, Down>>) : gy \in CpiResps("GY")}
    \cup {CpiOfArea(CpiFull("GY"), mom) : mom \in MomPatterns}
    \cup {CpiAllDown}

\* The first country's CPI answers vary, the other countries answer in full.
CpiStates ==
    {[b \in Areas |-> IF b = OECD_LOC[1][2] THEN c ELSE CpiAllFull] :
        c \in CpiAnswers}

\* Unemployment rows <<label, area, value>> of the months of sp for areas.
UneRows(sp, areas) ==
    LET obs == Obs(sp, LabelMonth, 50)
    IN  [j \in 1..(Len(obs) * Len(areas)) |->
            <<obs[((j - 1) \div Len(areas)) + 1][1],
              areas[((j - 1) % Len(areas)) + 1],
              obs[((j - 1) \div Len(areas)) + 1][2]>>]

UneFull == Data(UneRows(FullSpan, <<"USA", "EA20", "KOR", "G20">>))

UneStates ==
    {Down, Empty, UneFull,
     Data(UneRows([lo |-> 2, hi |-> 2], <<"USA", "G20">>)),
     Data(UneRows([lo |-> 1, hi |-> 1], <<"KOR">>) \o << <<LabelGarbage, "USA", "9">> >>)}

\* Daily ECB observations <<label, value>> on the given days.
EcbRows(days) == [j \in DOMAIN days |-> <<LabelIso(days[j]), ToString(60 + j)>>]

EcbFull == Data(EcbRows(<< <<2024, 1, 15>>, <<2024, 1, 20>>, <<2024, 2, 10>> >>))

EcbStates ==
    {Down, Empty, EcbFull,
     Data(EcbRows(<< <<2024, 1, 15>> >>)),
     Data(EcbRows(<< <<2024, 2, 10>> >>)),
     Data(EcbRows(<< <<2023, 12, 29>>, <<2024, 2, 10>> >>))}

\* The answers of ECOS for one item: rows <<TIME, DATA_VALUE>>.
EcosResps ==
    {Down, Empty}
    \cup {Data(Obs(sp, LabelCompact, 70)) : sp \in Spans(Months) \ {[lo |-> 1, hi |-> 0]}}
    \cup {Data(Obs([lo |-> 1, hi |-> 1], LabelCompact, 70) \o << <<LabelGarbage, "9">> >>),
          Data(Obs([lo |-> 1, hi |-> 1], LabelCompact, 70) \o << <<LabelNoMonth, "9">> >>)}

EcosFull == Data(Obs(FullSpan, LabelCompact, 70))

\* One item's answer varies, the other items answer in full.
EcosStates ==
    {[j \in EcosItems |-> IF j = ECOS_POLICY_ITEM[1][2] THEN r ELSE EcosFull] :
        r \in EcosResps}
    \cup {[j \in EcosItems |-> IF j = ECOS_POLICY_ITEM[1][2] THEN EcosFull ELSE r] :
            r \in {Down, Empty}}

MonthlyFull ==
    [cpi |-> [a \in Areas |-> CpiAllFull], une |-> UneFull, ecb |-> EcbFull,
     ecos |-> [i \in EcosItems |-> EcosFull]]

MonthlyDown ==
    [cpi |-> [a \in Areas |-> CpiAllDown], une |-> Down, ecb |-> Down,
     ecos |-> [i \in EcosItems |-> Down]]

\* The answers of one scheduling period: one block varies while the others
\* answer in full, or one series alone answers.
MonthlyStates ==
    {[MonthlyFull EXCEPT !.cpi = c] : c \in CpiStates}
    \cup {[MonthlyFull EXCEPT !.une = u] : u \in UneStates}
    \cup {[MonthlyFull EXCEPT !.ecb = e] : e \in EcbStates}
    \cup {[MonthlyFull EXCEPT !.ecos = e] : e \in EcosStates}
    \cup {[MonthlyDown EXCEPT !.cpi[OECD_LOC[1][2]].GY = gy] :
            gy \in {Data(Obs([lo |-> 1, hi |-> 1], LabelMonth, CodeBase("GY"))),
                    Data(Obs([lo |-> 1, hi |-> 1], LabelMonth, CodeBase("GY"))
                         \o << <<LabelGarbage, "9">> >>)}}
    \cup {[MonthlyDown EXCEPT !.ecb = e] :
            e \in {Down, Data(EcbRows(<< <<2024, 1, 15>> >>))}}
    \cup {[MonthlyDown EXCEPT !.ecos[ECOS_POLICY_ITEM[1][2]] = r] :
            r \in {Data(Obs([lo |-> 1, hi |-> 1], LabelCompact, 70))}}

Quarters == {1, 2}

QuarterEnd(q) == MonthEnd0(<<2024, 3 * q, 1>>)

\* The label of quarter q in a style: "YYYY-Qn", "YYYY-Q0n" or the ISO date
\* of the quarter's last day.
QuarterLabel(style, q) ==
    IF style = "Qn" THEN LabelQuarter(2024, q)
    ELSE IF style = "Q0n" THEN Dig4(2024) \o <<"-", "Q">> \o Dig2(q)
    ELSE LabelIso(QuarterEnd(q))

LabelStyles == {"Qn", "Q0n", "iso"}

KeyIndex == <<"I", "d", "x">>
KeyQoQ == <<"Q", "o", "Q">>
KeyYoY == <<"Y", "o", "Y">>

GdpKeys == <<KeyIndex, KeyQoQ, KeyYoY>>

GdpAreas == <<"USA", "KOR", "G20">>

\* The rows <<label, area, key, value>> of the quarters of sp, for every area
\* and every key of keys.
GdpRows(style, sp, keys) ==
    LET nq == sp.hi - sp.lo + 1
        na == Len(GdpAreas)
        nk == Len(keys)
    IN  [j \in 1..(nq * na * nk) |->
            LET q == sp.lo + ((j - 1) \div (na * nk))
                a == (((j - 1) \div nk) % na) + 1
                k == ((j - 1) % nk) + 1
            IN  <<QuarterLabel(style, q), GdpAreas[a], keys[k],
                  ToString(80 + 4 * k + q)>>]

GdpDown == [up |-> FALSE, dim |-> FALSE, keys |-> << >>, rows |-> << >>]

GdpStates ==
    {GdpDown}
    \cup {[up |-> TRUE, dim |-> TRUE, keys |-> GdpKeys,
           rows |-> GdpRows(style, sp, GdpKeys)] :
            style \in LabelStyles, sp \in Spans(Quarters)}
    \cup {[up |-> TRUE, dim |-> FALSE, keys |-> << >>,
           rows |-> GdpRows(style, sp, <<KeyQoQ>>)] :
            style \in LabelStyles, sp \in Spans(Quarters)}
    \cup {[up |-> TRUE, dim |-> TRUE, keys |-> GdpKeys,
           rows |-> GdpRows("iso", [lo |-> 1, hi |-> 1], GdpKeys)
                    \o << <<LabelGarbage, "USA", KeyQoQ, "9">> >>]}

-----------------------------------------------------------------------------
(* State machine *)

NoRun ==
    [tab |-> "", status |-> "none", reinit |-> FALSE, committed |-> FALSE,
     log |-> {}, filled |-> FALSE, repeat |-> FALSE, fail |-> NoFail,
     last0 |-> NoDate]

NoCall == [fn |-> "", arg |-> << >>, ret |-> << >>]

\* Sheets left by an older schema (one column only).
LegacyDaily == << <<"Date", "SOFR">>, <<Strftime(DayAt(NumDays)), "1">> >>

LegacyWeekly == << <<"Date", "UST_fails_to_deliver">>, <<Strftime(WeekAt(1)), "11">> >>

LegacyMonthly == << <<"Date", "US_CPI_YoY">>, <<Strftime(MonthAt(1)), "11">> >>

LegacyQuarterly == << <<"Date", "US_RealGDP_QoQ">>, <<Strftime(QuarterEnd(1)), "89">> >>

Legacy(tab) ==
    IF tab = TAB_DAILY THEN LegacyDaily
    ELSE IF tab = TAB_WEEKLY THEN LegacyWeekly
    ELSE IF tab = TAB_MONTHLY THEN LegacyMonthly
    ELSE LegacyQuarterly

Today0 == AddDays(DailyBase, NumDays)

SeriesIds == {DAILY_FRED_SERIES[i][1] : i \in DOMAIN DAILY_FRED_SERIES}

\* Between two scheduling periods the providers' content is not settled.
Unsettled ==
    [fred |-> << >>, ofr |-> << >>, cpi |-> << >>, une |-> << >>,
     ecb |-> << >>, ecos |-> << >>, gdp |-> << >>]

\* The cells that are missing in the sheet and that the fetch has a value for.
GapCells(existing, pulled) ==
    {p \in pulled.idx \X Range(pulled.cols) :
        /\ At(pulled, p[1], p[2]) # NaN
        /\ At(ReplaceBlank(existing), p[1], p[2]) = NaN}

\* The call main() makes for tab: the updater applied to the tab's sheet and
\* to what the tab's providers answer.
CallOf(tab, fail) ==
    IF tab = TAB_DAILY
    THEN update_daily(sheets[tab], upstream.fred, now, fail)
    ELSE IF tab = TAB_WEEKLY
    THEN update_weekly_ofr(sheets[tab], upstream.ofr, fail)
    ELSE IF tab = TAB_MONTHLY
    THEN update_monthly_rates(sheets[tab], upstream, fail)
    ELSE update_quarterly_rates(sheets[tab], upstream.gdp, fail)

\* The effect of one updater call on the state: its sheet and the run record.
Ran(tab, fail) ==
    LET Effect(o) ==
            /\ sheets' = [sheets EXCEPT ![tab] = o.grid]
            /\ run' = [tab |-> tab, status |-> o.status, reinit |-> o.reinit,
                       committed |-> o.committed, log |-> o.log,
                       filled |-> (/\ tab = TAB_DAILY /\ o.committed /\ ~o.reinit
                                   /\ GapCells(df_existing(sheets[TAB_DAILY]),
                                               df_pulled(upstream.fred, now)) # {}),
                       repeat |-> (run.tab = tab /\ run.status = "returned"),
                       fail |-> fail,
                       last0 |-> get_header_and_last_date(sheets[tab]).last]
    IN  Effect(CallOf(tab, fail))

UpdateDaily ==
    /\ pc = TAB_DAILY
    /\ Len(sheets[TAB_DAILY]) <= MaxRows
    /\ upstream.fred # << >>
    /\ Ran(TAB_DAILY, NoFail)
    /\ UNCHANGED <<upstream, now, pc, call>>

UpdateWeekly ==
    /\ pc = TAB_WEEKLY
    /\ Len(sheets[TAB_WEEKLY]) <= MaxRows
    /\ upstream.ofr # << >>
    /\ Ran(TAB_WEEKLY, NoFail)
    /\ UNCHANGED <<upstream, now, pc, call>>

UpdateMonthly ==
    /\ pc = TAB_MONTHLY
    /\ Len(sheets[TAB_MONTHLY]) <= MaxRows
    /\ upstream.cpi # << >>
    /\ Ran(TAB_MONTHLY, NoFail)
    /\ UNCHANGED <<upstream, now, pc, call>>

UpdateQuarterly ==
    /\ pc = TAB_QUARTERLY
    /\ Len(sheets[TAB_QUARTERLY]) <= MaxRows
    /\ upstream.gdp # << >>
    /\ Ran(TAB_QUARTERLY, NoFail)
    /\ UNCHANGED <<upstream, now, pc, call>>

\* What FRED serves during this scheduling period: any content per series.
SettleFred ==
    /\ pc = TAB_DAILY
    /\ upstream = Unsettled
    /\ \E f \in [SeriesIds -> FredStates] : upstream' = [upstream EXCEPT !.fred = f]
    /\ UNCHANGED <<sheets, now, pc, run, call>>

SettleOfr ==
    /\ pc = TAB_WEEKLY
    /\ upstream = Unsettled
    /\ \E o \in OfrStates : upstream' = [upstream EXCEPT !.ofr = o]
    /\ UNCHANGED <<sheets, now, pc, run, call>>

SettleMonthly ==
    /\ pc = TAB_MONTHLY
    /\ upstream = Unsettled
    /\ \E m \in MonthlyStates :
          upstream' = [upstream EXCEPT !.cpi = m.cpi, !.une = m.une,
                                       !.ecb = m.ecb, !.ecos = m.ecos]
    /\ UNCHANGED <<sheets, now, pc, run, call>>

SettleGdp ==
    /\ pc = TAB_QUARTERLY
    /\ upstream = Unsettled
    /\ \E g \in GdpStates : upstream' = [upstream EXCEPT !.gdp = g]
    /\ UNCHANGED <<sheets, now, pc, run, call>>

\* The scheduling period ends: the providers may publish, revise or fail anew.
Elapse ==
    /\ pc \in Tabs
    /\ upstream # Unsettled
    /\ upstream' = Unsettled
    /\ run' = NoRun
    /\ UNCHANGED <<sheets, now, pc, call>>

\* The updater under study runs again and again on its sheet, which starts
\* as a new worksheet or as a sheet of an older schema.
InitAt(tabs) ==
    /\ pc \in tabs
    /\ sheets \in {[t \in Tabs |-> IF t = pc THEN g ELSE Blank] :
                     g \in {Blank, Legacy(pc)}}
    /\ upstream = Unsettled
    /\ now = Today0
    /\ run = NoRun
    /\ call = NoCall

InitDaily == InitAt({TAB_DAILY})

NextDaily == UpdateDaily \/ SettleFred \/ Elapse

SpecDaily == InitDaily /\ [][NextDaily]_vars

\* The four updaters, each on its own sheet and providers.
InitTables == InitAt(Tabs)

NextTables ==
    \/ UpdateDaily \/ UpdateWeekly \/ UpdateMonthly \/ UpdateQuarterly
    \/ SettleFred \/ SettleOfr \/ SettleMonthly \/ SettleGdp
    \/ Elapse

SpecTables == InitTables /\ [][NextTables]_vars

\* main(): the four updaters in order; an exception that leaves an updater
\* leaves main.
MainOrder == <<TAB_DAILY, TAB_WEEKLY, TAB_MONTHLY, TAB_QUARTERLY>>

NextOf(tab) ==
    LET i == CHOOSE j \in DOMAIN MainOrder : MainOrder[j] = tab
    IN  IF i < Len(MainOrder) THEN MainOrder[i + 1] ELSE "done"

\* The API calls an updater makes on its worksheet.
CallsOf(tab) ==
    IF tab = TAB_DAILY
    THEN {"read", "clear_header", "write_header", "records", "clear", "write"}
    ELSE {"read", "clear_header", "write_header", "append"}

FredFull == [s \in SeriesIds |-> [up |-> TRUE, lo |-> 1, hi |-> NumDays, rev |-> 0]]

FredAllDown == [s \in SeriesIds |-> [up |-> FALSE, lo |-> 1, hi |-> 0, rev |-> 0]]

OfrFull == [up |-> TRUE, agg |-> [m \in WeeklyMnems |-> FullSpan]]

OfrDown == [up |-> FALSE, agg |-> [m \in WeeklyMnems |-> [lo |-> 1, hi |-> 0]]]

GdpFull ==
    [up |-> TRUE, dim |-> TRUE, keys |-> GdpKeys,
     rows |-> GdpRows("iso", FullSpan, GdpKeys)]

\* During one sweep every provider answers in full, or none answers.
MainAnswers ==
    {[fred |-> FredFull, ofr |-> OfrFull, cpi |-> MonthlyFull.cpi,
      une |-> MonthlyFull.une, ecb |-> MonthlyFull.ecb, ecos |-> MonthlyFull.ecos,
      gdp |-> GdpFull],
     [fred |-> FredAllDown, ofr |-> OfrDown, cpi |-> MonthlyDown.cpi,
      une |-> MonthlyDown.une, ecb |-> MonthlyDown.ecb, ecos |-> MonthlyDown.ecos,
      gdp |-> GdpDown]}

StartMain ==
    /\ pc = "idle"
    /\ upstream' \in MainAnswers
    /\ pc' = MainOrder[1]
    /\ run' = NoRun
    /\ UNCHANGED <<sheets, now, call>>

\* main() calls the updater of tab; any of the updater's worksheet calls may
\* raise.
MainCall(tab) ==
    /\ pc = tab
    /\ \E fail \in CallsOf(tab) \cup {NoFail} : Ran(tab, fail)
    /\ pc' = IF run'.status = "raised" THEN "crashed" ELSE NextOf(tab)
    /\ UNCHANGED <<upstream, now, call>>

\* The process ends, after the last updater or on the exception.
EndMain ==
    /\ pc \in {"done", "crashed"}
    /\ pc' = "idle"
    /\ upstream' = Unsettled
    /\ UNCHANGED <<sheets, now, run, call>>

InitMain ==
    /\ pc = "idle"
    /\ sheets \in {[t \in Tabs |-> Blank], [t \in Tabs |-> Legacy(t)]}
    /\ upstream = Unsettled
    /\ now = Today0
    /\ run = NoRun
    /\ call = NoCall

NextMain == StartMain \/ (\E tab \in Tabs : MainCall(tab)) \/ EndMain

SpecMain == InitMain /\ [][NextMain]_vars

\* The period labels _tp_to_timestamp is applied to.
Labels ==
    {LabelCompact(<<y, m, 1>>) : y \in 2022..2025, m \in 0..13}
    \cup {Dig4(2024) \o Dig2(m) \o Dig2(d) : m \in {2, 13}, d \in {0, 1, 29, 30}}
    \cup {LabelMonth(<<2024, m, 1>>) : m \in 0..13}
    \cup {LabelQuarter(y, q) : y \in {2023, 2024}, q \in 0..5}
    \cup {Dig4(2024) \o <<"-", "Q">> \o Dig2(q) : q \in 0..5}
    \cup {LabelIso(t) : t \in {<<2024, 2, 29>>, <<2023, 2, 29>>, <<2024, 3, 31>>}}
    \cup {LabelGarbage, << >>, Dig4(2024), Dig4(2024) \o <<"-", "Q">>,
          Dig4(2024) \o <<"-", "Q", "x">>,
          Dig4(2024) \o <<"-", "Q", "1", "-", "Q", "2">>,
          <<" ">> \o LabelCompact(<<2024, 3, 1>>) \o <<" ">>}

\* The rows an ECOS answer is made of.
EcosRowChoices ==
    {<<l, v>> : l \in {LabelCompact(MonthAt(1)), LabelCompact(MonthAt(2)),
                       LabelNoMonth, LabelGarbage, << >>},
                v \in {"71", ""}}

EcosSearches ==
    {Down} \cup {Data(rows) : rows \in UNION {[1..n -> EcosRowChoices] : n \in 0..2}}

ParseLabel ==
    /\ pc = "helpers"
    /\ \E l \in Labels :
          call' = [fn |-> "_tp_to_timestamp", arg |-> l, ret |-> _tp_to_timestamp(l)]
    /\ UNCHANGED <<sheets, upstream, now, pc, run>>

SearchEcos ==
    /\ pc = "helpers"
    /\ \E resp \in EcosSearches :
          call' = [fn |-> "ecos_stat_search", arg |-> resp,
                   ret |-> ecos_stat_search(resp)]
    /\ UNCHANGED <<sheets, upstream, now, pc, run>>

InitTp ==
    /\ pc = "helpers"
    /\ sheets = [t \in Tabs |-> Blank]
    /\ upstream = Unsettled
    /\ now = Today0
    /\ run = NoRun
    /\ call = NoCall

NextTp == ParseLabel \/ SearchEcos

SpecTp == InitTp /\ [][NextTp]_vars

-----------------------------------------------------------------------------
(* Reading a persisted table *)

\* The Date cells of the data rows of a grid.
DatesOf(grid) == {grid[i][1] : i \in 2..Len(grid)}

\* The cell of the row dated d under column c; "" when there is none.
SheetCell(grid, d, c) ==
    LET R == {i \in 2..Len(grid) : grid[i][1] = d}
    IN  IF R = {} THEN "" ELSE CellOf(grid, CHOOSE i \in R : TRUE, c)

\* This step is a call of the updater of tab, under settled providers.
IsRunOf(tab) == run'.tab = tab /\ upstream' = upstream /\ now' = now

-----------------------------------------------------------------------------
(* update_daily: the merge *)

\* C1 Preservation: a committed incremental merge of update_daily leaves every
\* non-empty cell of the table it merges into at its value, whatever the
\* fetch returned for that cell.
C1_Preservation ==
    [][(IsRunOf(TAB_DAILY) /\ run'.committed /\ ~run'.reinit) =>
          \A d \in DatesOf(sheets[TAB_DAILY]), c \in Range(DailyCols) :
              SheetCell(sheets[TAB_DAILY], d, c) # "" =>
                  SheetCell(sheets'[TAB_DAILY], d, c) = SheetCell(sheets[TAB_DAILY], d, c)]_vars

\* A merge has been committed and the sheet holds a value where the fetch
\* returned another one.
C1_Witness ==
    /\ run.tab = TAB_DAILY /\ run.committed /\ ~run.reinit
    /\ \E t \in df_pulled(upstream.fred, now).idx, c \in Range(DailyCols) :
          /\ At(df_pulled(upstream.fred, now), t, c) # NaN
          /\ SheetCell(sheets[TAB_DAILY], Strftime(t), c) # ""
          /\ SheetCell(sheets[TAB_DAILY], Strftime(t), c)
                # At(df_pulled(upstream.fred, now), t, c)

\* C2 Gap-filling: a cell that is empty (or whose row is missing) before the
\* run and that the fetch has a value for holds the fetched value after a
\* committed run.
C2_GapFilling ==
    [][(IsRunOf(TAB_DAILY) /\ run'.committed) =>
          \A t \in df_pulled(upstream.fred, now).idx, c \in Range(DailyCols) :
              (/\ At(df_pulled(upstream.fred, now), t, c) # NaN
               /\ SheetCell(sheets[TAB_DAILY], Strftime(t), c) = "") =>
                  SheetCell(sheets'[TAB_DAILY], Strftime(t), c)
                     = At(df_pulled(upstream.fred, now), t, c)]_vars

\* A committed merge into a table with the canonical header has filled a gap.
C2_Witness == run.tab = TAB_DAILY /\ run.committed /\ run.filled

\* C3 Idempotence: a second run of update_daily with the same fetched window,
\* on the table the first run left, leaves that table as it is.
C3_Idempotence ==
    [][(/\ run.tab = TAB_DAILY /\ run.status = "returned"
        /\ IsRunOf(TAB_DAILY) /\ run'.status = "returned") =>
          sheets'[TAB_DAILY] = sheets[TAB_DAILY]]_vars

\* The second of two runs on one window has rewritten a table of two rows.
C3_Witness ==
    /\ run.tab = TAB_DAILY /\ run.repeat /\ run.committed
    /\ Len(sheets[TAB_DAILY]) >= 3

-----------------------------------------------------------------------------
(* The watermark and the shape of the tables *)

\* The watermark of a table: the Date of its last row, NoDate without one.
Watermark(grid) == get_header_and_last_date(grid).last

\* Date d is later than watermark w (any date is later than no watermark).
LaterThan(d, w) ==
    /\ ToDatetime(d) # NaT
    /\ w = NoDate \/ ToDatetime(w) = NaT \/ TsLess(ToDatetime(w), ToDatetime(d))

WmLeq(a, b) == a = b \/ LaterThan(b, a)

\* The dates a step adds to the table of tab.
NewDates(tab) == DatesOf(sheets'[tab]) \ DatesOf(sheets[tab])

TableOk(grid) ==
    /\ \A i \in 2..Len(grid) :
          /\ Len(grid[i]) = Len(grid[1])
          /\ ToDatetime(grid[i][1]) # NaT
          /\ \A j \in DOMAIN grid[i] : grid[i][j] # NaN
    /\ \A i \in 2..(Len(grid) - 1) :
          (ToDatetime(grid[i][1]) # NaT /\ ToDatetime(grid[i + 1][1]) # NaT) =>
              TsLess(ToDatetime(grid[i][1]), ToDatetime(grid[i + 1][1]))

\* C5 Table invariant: after any sequence of runs of the four updaters, each
\* table has its rows strictly ascending by Date, no two rows of one Date,
\* every row as wide as the header, missing values written as "".
C5_TableInvariant == \A tab \in Tabs : TableOk(sheets[tab])

-----------------------------------------------------------------------------
(* Failures: of a write, of an updater, of a provider *)

\* C6 All-or-nothing commit: when the write of the merged table of data-daily
\* fails (the clear or the update that follows it raises), the rows the table
\* held before the run are still there, unchanged.
C6_AllOrNothing ==
    [][(/\ IsRunOf(TAB_DAILY) /\ run'.status = "raised" /\ ~run'.reinit
        /\ run'.fail \in {"clear", "write"}) =>
            sheets'[TAB_DAILY] = sheets[TAB_DAILY]]_vars

\* C7 Table independence: whatever fails inside the updater of one table,
\* main goes on with the next table, so every run reaches the end of the
\* sweep over the four tables.
C7_SweepContinues ==
    [][(pc \in Tabs /\ pc' # pc) => pc' = NextOf(pc)]_vars

\* Some row dated d holds v under column c.
HasCell(grid, d, c, v) ==
    \E i \in 2..Len(grid) : grid[i][1] = d /\ CellOf(grid, i, c) = v

\* The column of frame f under its j-th name, as a series.
ColumnOf(f, j) == [idx |-> f.idx, at |-> [t \in f.idx |-> At(f, t, f.cols[j])]]

\* What each unit of update_monthly_rates yields when taken by itself, as
\* pairs <<column, series>>: the YoY and the MoM request of a country, the
\* unemployment block, the ECB block, the ECOS block.
MonthlyUnits(up) ==
    LET une == UnemploymentFrame(up.une.rows)
        dfr == ecb_get_series_csv(up.ecb)
        rs == [i \in DOMAIN ECOS_POLICY_ITEM |->
                  ecos_stat_search(up.ecos[ECOS_POLICY_ITEM[i][2]])]
    IN  {<<OECD_LOC[i][1] \o "_CPI_YoY",
           fetch_oecd_g20_cpi_rate_one(up.cpi[OECD_LOC[i][2]]["GY"]).s>> :
            i \in DOMAIN OECD_LOC}
        \cup {<<OECD_LOC[i][1] \o "_CPI_MoM", FirstMom(1, up.cpi[OECD_LOC[i][2]])>> :
                i \in DOMAIN OECD_LOC}
        \cup (IF up.une.up
              THEN {<<une.cols[j], ColumnOf(une, j)>> : j \in DOMAIN une.cols}
              ELSE {})
        \cup (IF dfr.exc \/ dfr.s.idx = {} THEN {}
              ELSE {<<"EA_PolicyRate", ResampleMonthLast(dfr.s)>>})
        \cup (IF \E i \in DOMAIN rs : rs[i].exc THEN {}
              ELSE {<<ECOS_POLICY_ITEM[i][1] \o "_PolicyRate", rs[i].s>> :
                      i \in DOMAIN rs})

\* C8 Failure isolation: in a run of update_daily that returns, every
\* observation FRED gives for a series is in the table after the run (under
\* the series' column, unless the table already had a value there), whatever
\* the requests of the other series did; in a run of update_monthly_rates
\* that returns, every observation after the watermark that a unit (the CPI
\* requests of a country, the unemployment block, the ECB block, the ECOS
\* block) yields is in the table after the run, whatever the other units did.
C8_FailureIsolation ==
    [][/\ (IsRunOf(TAB_DAILY) /\ run'.status = "returned") =>
              \A i \in DOMAIN DAILY_FRED_SERIES :
                 LET st == upstream.fred[DAILY_FRED_SERIES[i][1]]
                     col == DAILY_FRED_SERIES[i][2]
                     s == get_series(st, PullStart(now))
                 IN  st.up =>
                        \A t \in s.idx :
                           LET old == IF run'.reinit THEN ""
                                      ELSE SheetCell(sheets[TAB_DAILY], Strftime(t), col)
                           IN  HasCell(sheets'[TAB_DAILY], Strftime(t), col,
                                       IF old # "" THEN old ELSE s.at[t])
       /\ (IsRunOf(TAB_MONTHLY) /\ run'.status = "returned") =>
              \A u \in MonthlyUnits(upstream) :
                 \A t \in u[2].idx :
                    (/\ t # NaT
                     /\ LaterThan(Strftime(t), Watermark(sheets[TAB_MONTHLY]))) =>
                        HasCell(sheets'[TAB_MONTHLY], Strftime(t), u[1],
                                Fillna(u[2].at[t]))]_vars

\* A run of update_monthly_rates in which the ECB request failed has appended
\* rows that hold a CPI value.
C8_Witness ==
    /\ run.tab = TAB_MONTHLY /\ run.committed
    /\ "ecb_failed" \in run.log
    /\ \E i \in 2..Len(sheets[TAB_MONTHLY]) :
          CellOf(sheets[TAB_MONTHLY], i, "US_CPI_YoY") # ""

-----------------------------------------------------------------------------
(* Period labels *)

AllDigits(tp, from, to) == \A i \in from..to : IsDigit(tp[i])

\* The labels that name a period: YYYYMM, YYYYMMDD, YYYY-MM, YYYY-Qn and
\* YYYY-MM-DD of a month, day or quarter that exists.
WellFormed(label) ==
    LET tp == strip(label)
        num(a, b) == NumVal(SubSeq(tp, a, b))
    IN  \/ /\ Len(tp) = 6 /\ AllDigits(tp, 1, 6)
           /\ num(5, 6) \in 1..12
        \/ /\ Len(tp) = 8 /\ AllDigits(tp, 1, 8)
           /\ num(5, 6) \in 1..12
           /\ num(7, 8) \in 1..DaysInMonth(num(1, 4), num(5, 6))
        \/ /\ Len(tp) = 7 /\ AllDigits(tp, 1, 4) /\ tp[5] = "-" /\ AllDigits(tp, 6, 7)
           /\ num(6, 7) \in 1..12
        \/ /\ Len(tp) >= 7 /\ AllDigits(tp, 1, 4) /\ tp[5] = "-" /\ tp[6] = "Q"
           /\ AllDigits(tp, 7, Len(tp))
           /\ num(7, Len(tp)) \in 1..4
        \/ /\ Len(tp) = 10 /\ AllDigits(tp, 1, 4) /\ tp[5] = "-"
           /\ AllDigits(tp, 6, 7) /\ tp[8] = "-" /\ AllDigits(tp, 9, 10)
           /\ num(6, 7) \in 1..12
           /\ num(9, 10) \in 1..DaysInMonth(num(1, 4), num(6, 7))

\* A label that names no period and that pandas reads no date from.
Malformed(label) == ~WellFormed(label) /\ to_datetime(strip(label)) = NaT

\* C9 Malformed period labels: _tp_to_timestamp returns the missing timestamp,
\* and raises nothing, for every malformed label; ecos_stat_search of an
\* answer that holds one still returns the observations of the well-formed
\* labels of the series.
C9_MalformedDropped ==
    /\ (call.fn = "_tp_to_timestamp" /\ Malformed(call.arg)) =>
           call.ret = Returned(NaT)
    /\ (call.fn = "ecos_stat_search" /\ call.arg.up) =>
           /\ ~call.ret.exc
           /\ \A i \in DOMAIN call.arg.rows :
                 (/\ WellFormed(call.arg.rows[i][1])
                  /\ to_numeric(call.arg.rows[i][2]) # NaN) =>
                     \E t \in call.ret.s.idx : LabelCompact(t) = call.arg.rows[i][1]

\* C10 Period normalization: _tp_to_timestamp maps a label YYYYMM to the first
\* day of that month and a label YYYY-Qn to the last day of that quarter
\* ("202403" to 2024-03-01, "2024-Q1" to 2024-03-31).
C10_PeriodNormalization ==
    call.fn = "_tp_to_timestamp" =>
        /\ \A y \in 2022..2025, m \in 1..12 :
              call.arg = LabelCompact(<<y, m, 1>>) =>
                  call.ret = Returned(<<y, m, 1>>)
        /\ \A y \in {2023, 2024}, q \in 1..4 :
              call.arg = LabelQuarter(y, q) =>
                  call.ret = Returned(MonthEnd0(<<y, 3 * q, 1>>))

-----------------------------------------------------------------------------
(* Row keys of data-monthly *)

\* The month of the row dated d of a grid, as <<year, month>>.
MonthOfRow(d) == <<ToDatetime(d)[1], ToDatetime(d)[2]>>

\* C11 Row keys of data-monthly: every dated row of the table is keyed at the
\* first day of its month, whichever source (OECD CPI, OECD unemployment, ECB
\* deposit facility rate, ECOS policy rate) gave its values, and so no two
\* rows of the table are of one month.
C11_FirstOfMonth ==
    LET g == sheets[TAB_MONTHLY]
        Dated == {i \in 2..Len(g) : ToDatetime(g[i][1]) # NaT}
    IN  /\ \A i \in Dated : ToDatetime(g[i][1])[3] = 1
        /\ \A i, j \in Dated :
              MonthOfRow(g[i][1]) = MonthOfRow(g[j][1]) => i = j

-----------------------------------------------------------------------------
(* app.py: the 2Y hybrid series of the yield matrix *)

\* The days an ECOS daily answer of the model spans.
BokDays == 3

\* "YYYYMMDD" (ECOS daily)
LabelDay(t) == Dig4(t[1]) \o Dig2(t[2]) \o Dig2(t[3])

\* pd.to_datetime(df['TIME']) of one label, errors raised: the day of a
\* YYYYMMDD or YYYY-MM-DD label, ValueError for the other strings of the
\* model.
ParseTime(s) ==
    IF Len(s) = 8 /\ isdigit(s)
    THEN Timestamp(NumVal(SubSeq(s, 1, 4)), NumVal(SubSeq(s, 5, 6)),
                   NumVal(SubSeq(s, 7, 8)))
    ELSE TimestampOfStr(s)

\* get_bok_data(stat_code, 'D', item_code, column_name): the frame of the
\* rows <<TIME, DATA_VALUE>> of the answer under column_name, an empty
\* DataFrame when the request fails, the answer has no row, or pd.to_datetime
\* or pd.to_numeric raises.  An empty DATA_VALUE is a missing value.  (The
\* answers of the model hold one row per TIME.)
get_bok_data(resp, column_name) ==
    IF ~resp.up \/ resp.rows = << >> THEN NoFrame
    ELSE IF \E i \in DOMAIN resp.rows :
               \/ ParseTime(resp.rows[i][1]).exc
               \/ resp.rows[i][2] \notin Numbers \cup {""}
         THEN NoFrame
    ELSE LET s == SeriesOf(resp.rows, DOMAIN resp.rows,
                           LAMBDA r : ParseTime(r[1]).ts,
                           LAMBDA r : to_numeric(r[2]))
         IN  ToFrame(s, column_name)

\* Mutant: the fallback up to the first timestamp of the primary, the primary
\* from there on.
df_2y_Cutover(df_ktb2, df_msb2) ==
    IF IsEmpty(df_ktb2) \/ IsEmpty(df_msb2)
    THEN Reindex(CombineFirst(df_ktb2, df_msb2), <<"2Y">>)
    ELSE Frame(df_ktb2.idx \cup df_msb2.idx, <<"2Y">>,
               LAMBDA t, c : IF TsLeq(SortIndex(df_ktb2.idx)[1], t)
                             THEN At(df_ktb2, t, "2Y") ELSE At(df_msb2, t, "2Y"))

\* Mutant: the fallback is taken first.
df_2y_FallbackFirst(df_ktb2, df_msb2) ==
    IF ~IsEmpty(df_ktb2) \/ ~IsEmpty(df_msb2)
    THEN Reindex(CombineFirst(df_msb2, df_ktb2), <<"2Y">>)
    ELSE NoFrame

\* Mutant: the fallback is taken only when the primary is empty.
df_2y_PrimaryOrElse(df_ktb2, df_msb2) ==
    IF ~IsEmpty(df_ktb2) THEN df_ktb2
    ELSE IF ~IsEmpty(df_msb2) THEN df_msb2
    ELSE NoFrame

\* The 2Y hybrid of fetch_yield_matrix_final: df_ktb2.combine_first(df_msb2)
\* under the column "2Y" when one of the two is not empty, no series
\* otherwise.
df_2y(df_ktb2, df_msb2) ==
    IF ~IsEmpty(df_ktb2) \/ ~IsEmpty(df_msb2)
    THEN Reindex(CombineFirst(df_ktb2, df_msb2), <<"2Y">>)
    ELSE NoFrame

\* The answers of ECOS to a daily request: an error, or per day no row, a row
\* without a value or a row with one of two values; and an answer with a row
\* that does not parse.
BokAnswers ==
    LET Pick(c) == SelectSeq([d \in 1..BokDays |-> d], LAMBDA d : c[d] # "none")
        Rows(c, pick) == [j \in DOMAIN pick |-> <<LabelDay(DayAt(pick[j])), c[pick[j]]>>]
    IN  {Down}
        \cup {Data(Rows(c, Pick(c))) : c \in [1..BokDays -> {"none", "", "31", "32"}]}
        \cup {Data(<< <<LabelDay(DayAt(1)), "31">>, <<LabelGarbage, "32">> >>),
              Data(<< <<LabelDay(DayAt(1)), "-">> >>)}

\* Python's None, where a timestamp is expected.
None == << >>

\* switch_date of fetch_yield_matrix_final: the earliest timestamp of the
\* primary frame, None when that frame is empty.
switch_date(df_ktb2) ==
    IF IsEmpty(df_ktb2) THEN None ELSE SortIndex(df_ktb2.idx)[1]

\* fetch_yield_matrix_final(), its 2Y part: the two requests, switch_date
\* and the splice.
FetchYieldMatrix ==
    /\ pc = "app"
    /\ call = NoCall
    /\ LET Splice(df_ktb2, df_msb2) ==
               call' = [fn |-> "fetch_yield_matrix_final",
                        arg |-> [ktb |-> df_ktb2, msb |-> df_msb2],
                        ret |-> df_2y(df_ktb2, df_msb2),
                        switch_date |-> switch_date(df_ktb2)]
       IN  \E k \in BokAnswers, m \in BokAnswers :
              Splice(get_bok_data(k, "2Y"), get_bok_data(m, "2Y"))
    /\ UNCHANGED <<sheets, upstream, now, pc, run>>

\* The points of the short level series of the model.
MaxPoints == 5

\* A cell of a numeric column: the number n, or no value.
Num(n) == <<n>>

NoValue == << >>

RECURSIVE Gcd(_, _)
Gcd(a, b) == IF b = 0 THEN a ELSE Gcd(b, a % b)

Abs(n) == IF n < 0 THEN 0 - n ELSE n

\* (a / b - 1) * 100 for two levels a, b >= 0, as the fraction <<num, den>> in
\* lowest terms; the floats' inf is <<1, 0>> and 0 / 0 has no value.
PctOf(a, b) ==
    IF b = 0 THEN (IF a = 0 THEN NoValue ELSE <<1, 0>>)
    ELSE LET n == 100 * (a - b)
             g == Gcd(Abs(n), b)
         IN  <<n \div g, b \div g>>

RECURSIVE Ffill(_)
\* ffill(): a missing cell takes the last value before it.
Ffill(s) ==
    IF s = << >> THEN s
    ELSE LET head == Ffill(SubSeq(s, 1, Len(s) - 1))
             last == s[Len(s)]
         IN  Append(head, IF last = NoValue /\ head # << >> THEN head[Len(head)]
                          ELSE last)

\* Mutant: the first periods points are 0.
pct_change_Zero(s, periods) ==
    [i \in DOMAIN s |->
        IF i <= periods THEN <<0, 1>>
        ELSE IF s[i] = NoValue \/ s[i - periods] = NoValue THEN NoValue
        ELSE PctOf(s[i][1], s[i - periods][1])]

\* s.pct_change(periods) * 100: the missing cells are filled forward, then
\* each point is set against the point periods rows before it; the first
\* periods points have no value.
pct_change(s, periods) ==
    LET Change(f) ==
            [i \in DOMAIN f |->
                IF i <= periods THEN NoValue
                ELSE IF f[i] = NoValue \/ f[i - periods] = NoValue THEN NoValue
                ELSE PctOf(f[i][1], f[i - periods][1])]
    IN  Change(Ffill(s))

\* The level columns the macro frames hold before they are filled forward:
\* every short series, and series of about a year from a first to a last
\* level.
LevelSeries ==
    UNION {[1..n -> {NoValue, Num(0), Num(100), Num(110)}] : n \in 0..MaxPoints}
    \cup {[i \in 1..n |-> IF i = 1 THEN a ELSE IF i = n THEN b ELSE mid] :
            n \in {12, 13, 14},
            a \in {Num(100), Num(110)}, b \in {Num(100), Num(110)},
            mid \in {NoValue, Num(100), Num(105)}}

\* plot_macro_charts(df, country_name) on the frame its caller has filled
\* forward: the growth series of a level column.
PlotMacroCharts ==
    /\ pc = "app"
    /\ call = NoCall
    /\ LET Plot(level) ==
               call' = [fn |-> "plot_macro_charts", arg |-> level,
                        ret |-> [gdp_yoy |-> pct_change(level, 4),
                                 gdp_qoq |-> pct_change(level, 1),
                                 cpi_yoy |-> pct_change(level, 12)]]
       IN  \E s \in LevelSeries : Plot(Ffill(s))
    /\ UNCHANGED <<sheets, upstream, now, pc, run>>

InitApp ==
    /\ pc = "app"
    /\ sheets = [t \in Tabs |-> Blank]
    /\ upstream = Unsettled
    /\ now = Today0
    /\ run = NoRun
    /\ call = NoCall

\* Streamlit runs the script again from the top on every interaction.
Rerun ==
    /\ pc = "app"
    /\ call # NoCall
    /\ call' = NoCall
    /\ UNCHANGED <<sheets, upstream, now, pc, run>>

NextApp == FetchYieldMatrix \/ PlotMacroCharts \/ Rerun

SpecApp == InitApp /\ [][NextApp]_vars

\* The days one of the two inputs of the splice has a row for.
SpliceDays == call.arg.ktb.idx \cup call.arg.msb.idx

\* C12 Splice determinism: at every timestamp where both the primary (KTB 2Y)
\* and the fallback (MSB 2Y) have a value, the value of the 2Y hybrid is the
\* primary's.
C12_SpliceDeterminism ==
    call.fn = "fetch_yield_matrix_final" =>
        \A t \in SpliceDays :
            (At(call.arg.ktb, t, "2Y") # NaN /\ At(call.arg.msb, t, "2Y") # NaN) =>
                At(call.ret, t, "2Y") = At(call.arg.ktb, t, "2Y")

\* The primary and the fallback have two different values on one day.
C12_Witness ==
    /\ call.fn = "fetch_yield_matrix_final"
    /\ \E t \in SpliceDays :
          /\ At(call.arg.ktb, t, "2Y") # NaN /\ At(call.arg.msb, t, "2Y") # NaN
          /\ At(call.arg.ktb, t, "2Y") # At(call.arg.msb, t, "2Y")
          /\ At(call.ret, t, "2Y") # NaN

\* C13 Splice coverage: the 2Y hybrid has a value at a timestamp exactly when
\* the primary or the fallback has one there, the primary's if it has one and
\* the fallback's otherwise; at a timestamp where neither has a value (no row,
\* or a row without a value) the hybrid has none.
C13_SpliceCoverage ==
    call.fn = "fetch_yield_matrix_final" =>
        /\ call.ret.idx \subseteq SpliceDays
        /\ \A t \in SpliceDays :
              At(call.ret, t, "2Y") =
                 IF At(call.arg.ktb, t, "2Y") # NaN THEN At(call.arg.ktb, t, "2Y")
                 ELSE At(call.arg.msb, t, "2Y")

\* The primary has a row with a value, a gap that the fallback fills, and a
\* day is in neither.
C13_Witness ==
    /\ call.fn = "fetch_yield_matrix_final"
    /\ \E t, u, v \in {DayAt(d) : d \in 1..BokDays} :
          /\ At(call.arg.ktb, t, "2Y") # NaN
          /\ u \in call.arg.ktb.idx /\ At(call.arg.ktb, u, "2Y") = NaN
          /\ At(call.arg.msb, u, "2Y") # NaN /\ At(call.ret, u, "2Y") # NaN
          /\ v \notin SpliceDays /\ v \notin call.ret.idx

-----------------------------------------------------------------------------
(* Discarding history, logging it, and runs that end before the commit *)

\* Row i of grid g is still in grid h: h has a row of the same Date that holds
\* every value the row held.
RowKept(g, i, h) ==
    \E j \in 2..Len(h) :
        /\ h[j][1] = g[i][1]
        /\ \A c \in DOMAIN g[i] :
              g[i][c] # "" => (c \in DOMAIN h[j] /\ h[j][c] = g[i][c])

\* C14 Discarding history: in a run that finds the canonical header in the
\* table (FULL_BACKFILL is off), every row the table held before the run is
\* still in the table after it.
C14_RowsKept ==
    [][\A tab \in Tabs :
          (IsRunOf(tab) /\ ~run'.reinit) =>
              \A i \in 2..Len(sheets[tab]) :
                  RowKept(sheets[tab], i, sheets'[tab])]_vars

\* C15 Logged reinitialization: a run that discards the history of a table
\* because of a header mismatch (ws.clear followed by write_header) emits a
\* log event that reports the reinitialization.
C15_ReinitLogged == run.reinit => "reinitialized" \in run.log

\* C16 Abort safety: a run on a table that holds rows which ends before its
\* data commit (it returns early because nothing was fetched or nothing is
\* new) leaves the persisted table identical to its state before the run.
C16_AbortSafety ==
    [][\A tab \in Tabs :
          (/\ IsRunOf(tab) /\ ~run'.committed /\ run'.fail = NoFail
           /\ Len(sheets[tab]) >= 2) =>
              sheets'[tab] = sheets[tab]]_vars

-----------------------------------------------------------------------------
(* update_daily.py: the appending updater of data-daily *)

LOOKBACK_DAYS_PY == 10

\* combined[combined.index > last_dt]
AfterDate(df, last_dt) ==
    Frame({t \in df.idx : t # NaT /\ TsLess(last_dt, t)}, df.cols,
          LAMBDA t, c : df.at[<<t, c>>])

\* update_daily(fred, sh) of update_daily.py on the grid of data-daily: the
\* header is rewritten in place when it is not the target one, the window of
\* the last LOOKBACK_DAYS days is fetched, and the rows after the last date
\* are appended.  pd.to_datetime raises for a last date that does not parse,
\* the column selection raises (KeyError) when a series gave no column.
update_daily_py(grid, fred, today) ==
    LET hs == get_header_and_last_date(grid)
        rewrite == hs.header # DailyHeaders
        failed == {"load_failed:" \o DAILY_FRED_SERIES[i][1] :
                     i \in {j \in DOMAIN DAILY_FRED_SERIES :
                              ~fred[DAILY_FRED_SERIES[j][1]].up}}
        Filtered(g1, fresh) ==
            IF IsEmpty(fresh)
            THEN Outcome(g1, "returned", rewrite, FALSE,
                         {"pulling", "no_new_rows"} \cup failed)
            ELSE IF ~(Range(DailyCols) \subseteq Range(fresh.cols))
            THEN Outcome(g1, "raised", rewrite, FALSE, {"pulling"} \cup failed)
            ELSE Outcome(AppendRows(g1, ToRows(Reindex(fresh, DailyCols))),
                         "returned", rewrite, TRUE,
                         {"pulling", "appended"} \cup failed)
        Fetched(g1, combined) ==
            IF IsEmpty(combined)
            THEN Outcome(g1, "returned", rewrite, FALSE,
                         {"pulling", "no_data"} \cup failed)
            ELSE IF hs.last = NoDate THEN Filtered(g1, combined)
            ELSE IF ToDatetime(hs.last) = NaT
            THEN Outcome(g1, "raised", rewrite, FALSE, {"pulling"} \cup failed)
            ELSE Filtered(g1, AfterDate(combined, ToDatetime(hs.last)))
    IN  Fetched(IF rewrite THEN WriteHeader(grid, DailyHeaders) ELSE grid,
                PullDaily(1, fred, AddDays(today, 0 - LOOKBACK_DAYS_PY), NoFrame))

\* A sheet left by an older schema of data-daily, from before SOFR was the
\* first series.
OlderDaily == << <<"Date", "US_2Y">>, <<Strftime(DayAt(1)), "1">> >>

\* One run of update_daily.py on data-daily.
UpdateDailyPy ==
    /\ pc = TAB_DAILY
    /\ Len(sheets[TAB_DAILY]) <= MaxRows
    /\ upstream.fred # << >>
    /\ LET Effect(o) ==
               /\ sheets' = [sheets EXCEPT ![TAB_DAILY] = o.grid]
               /\ run' = [tab |-> TAB_DAILY, status |-> o.status,
                          reinit |-> o.reinit, committed |-> o.committed,
                          log |-> o.log, filled |-> FALSE,
                          repeat |-> (run.tab = TAB_DAILY /\ run.status = "returned"),
                          fail |-> NoFail,
                          last0 |-> get_header_and_last_date(sheets[TAB_DAILY]).last]
       IN  Effect(update_daily_py(sheets[TAB_DAILY], upstream.fred, now))
    /\ UNCHANGED <<upstream, now, pc, call>>

InitScript ==
    /\ pc = TAB_DAILY
    /\ sheets \in {[t \in Tabs |-> IF t = TAB_DAILY THEN g ELSE Blank] :
                     g \in {Blank, LegacyDaily, OlderDaily}}
    /\ upstream = Unsettled
    /\ now = Today0
    /\ run = NoRun
    /\ call = NoCall

NextScript == UpdateDailyPy \/ SettleFred \/ Elapse

SpecScript == InitScript /\ [][NextScript]_vars

\* The values of the rows of grid g sit under the column names of grid h
\* that they sit under in g: wherever a row of g that h still holds at its
\* place has a value, the two headers name the column alike, and no row is
\* wider than its header.
SameSchema(g, h) ==
    \A i \in 2..Len(g) :
        (i <= Len(h) /\ h[i] = g[i]) =>
            \A p \in DOMAIN g[i] :
                g[i][p] # "" => (p <= Len(h[1]) /\ p <= Len(g[1]) /\ h[1][p] = g[1][p])

\* C17 One schema: the header of a table is the header its rows were written
\* under: a run never leaves a row in the table under a header that names the
\* column of one of the row's values otherwise than the header before the run.
C17_OneSchema ==
    [][IsRunOf(TAB_DAILY) =>
          SameSchema(sheets[TAB_DAILY], sheets'[TAB_DAILY])]_vars

-----------------------------------------------------------------------------
(* The window requested from the providers *)

MONTHLY_DEFAULT_START == <<2000, 1, 1>>

QUARTERLY_DEFAULT_START == <<1990, 1, 1>>

\* d - pd.DateOffset(months=k), up to the day of the month.
MonthsBefore(d, k) ==
    LET n == d[1] * 12 + (d[2] - 1) - k
    IN  <<n \div 12, (n % 12) + 1, 1>>

\* monthly_query_start(last_date, "2000-01", 3): the first day of the month
\* the returned YYYY-MM names.
monthly_query_start(last) ==
    IF last = NoDate THEN MONTHLY_DEFAULT_START
    ELSE IF ToDatetime(last) = NaT THEN MONTHLY_DEFAULT_START
    ELSE MonthsBefore(ToDatetime(last), 3)

\* quarterly_query_start(last_date, "1990-Q1", 2): the first day of the
\* quarter the returned YYYY-Qn names.
quarterly_query_start(last) ==
    IF last = NoDate THEN QUARTERLY_DEFAULT_START
    ELSE IF ToDatetime(last) = NaT THEN QUARTERLY_DEFAULT_START
    ELSE LET d2 == MonthsBefore(ToDatetime(last), 3 * 2)
             q == ((d2[2] - 1) \div 3) + 1
         IN  <<d2[1], 3 * (q - 1) + 1, 1>>

\* The first day of the window the updater of tab requests from its
\* providers, for a table whose last date is last.
WindowStart(tab, last, today) ==
    IF tab = TAB_DAILY THEN PullStart(today)
    ELSE IF tab = TAB_WEEKLY THEN pick_start_date(last, WEEKLY_DEFAULT_START)
    ELSE IF tab = TAB_MONTHLY THEN monthly_query_start(last)
    ELSE quarterly_query_start(last)

\* C18 Incremental fetch window: for every table, a run that finds the
\* canonical header and a watermark requests a window that starts at or
\* before the watermark.
C18_WindowFromWatermark ==
    [][\A tab \in Tabs :
          (/\ IsRunOf(tab) /\ ~run'.reinit
           /\ ToDatetime(Watermark(sheets[tab])) # NaT) =>
              TsLeq(WindowStart(tab, Watermark(sheets[tab]), now),
                    ToDatetime(Watermark(sheets[tab])))]_vars

-----------------------------------------------------------------------------
(* Late values of the monthly and quarterly tables *)

\* The cell of column c of the row dated d of grid g is empty, and d is at or
\* before the watermark of g.
LateCell(g, d, c) ==
    /\ d \in DatesOf(g)
    /\ ~LaterThan(d, Watermark(g))
    /\ SheetCell(g, d, c) = ""

\* C19 Late values: in an incremental run of update_monthly_rates or
\* update_quarterly_rates, a value the providers give for a period at or
\* before the watermark, whose cell in the table is empty, is in that cell
\* after the run.
C19_LateValuesFilled ==
    [][/\ (IsRunOf(TAB_MONTHLY) /\ run'.status = "returned" /\ ~run'.reinit) =>
              \A u \in MonthlyUnits(upstream) :
                 \A t \in u[2].idx :
                    (/\ t # NaT /\ u[2].at[t] # NaN
                     /\ LateCell(sheets[TAB_MONTHLY], Strftime(t), u[1])) =>
                        HasCell(sheets'[TAB_MONTHLY], Strftime(t), u[1], u[2].at[t])
       /\ (IsRunOf(TAB_QUARTERLY) /\ run'.status = "returned" /\ ~run'.reinit) =>
              \A t \in QuarterlyCombined(upstream.gdp).idx,
                 c \in Range(QuarterlyCols) :
                    (/\ At(QuarterlyCombined(upstream.gdp), t, c) # NaN
                     /\ LateCell(sheets[TAB_QUARTERLY], Strftime(t), c)) =>
                        HasCell(sheets'[TAB_QUARTERLY], Strftime(t), c,
                                At(QuarterlyCombined(upstream.gdp), t, c))]_vars

-----------------------------------------------------------------------------
(* plot_macro_charts: the growth series *)

\* Series r is the rate of the levels s at offset p: no value at the first p
\* points, and at point i > p the value (s[i] / s[i - p] - 1) * 100, none
\* where one of the two levels is missing.
IsRateOf(r, s, p) ==
    /\ DOMAIN r = DOMAIN s
    /\ \A i \in DOMAIN s :
          IF i <= p \/ s[i] = NoValue \/ s[i - p] = NoValue
          THEN r[i] = NoValue
          ELSE s[i - p][1] # 0 =>
                  /\ Len(r[i]) = 2 /\ r[i][2] > 0
                  /\ r[i][1] * s[i - p][1] = 100 * (s[i][1] - s[i - p][1]) * r[i][2]

\* C20 Rate transformation: the YoY series is (level[i] / level[i - p] - 1)
\* * 100 at every point that has p points before it, p = 4 for GDP and 12 for
\* CPI, and has no value (not zero) at the first p points; the
\* period-over-period series is the same at offset 1; for a series of 13
\* points from 100 to 110 the CPI YoY is 10 at the 13th point and absent at
\* points 1 to 12.
C20_RateTransformation ==
    call.fn = "plot_macro_charts" =>
        /\ IsRateOf(call.ret.gdp_yoy, call.arg, 4)
        /\ IsRateOf(call.ret.cpi_yoy, call.arg, 12)
        /\ IsRateOf(call.ret.gdp_qoq, call.arg, 1)
        /\ (Len(call.arg) = 13 /\ call.arg[1] = Num(100) /\ call.arg[13] = Num(110)) =>
              /\ call.ret.cpi_yoy[13] = <<10, 1>>
              /\ \A i \in 1..12 : call.ret.cpi_yoy[i] = NoValue

\* The 13-point series from 100 to 110 has been plotted.
C20_Witness ==
    /\ call.fn = "plot_macro_charts"
    /\ Len(call.arg) = 13 /\ call.arg[1] = Num(100) /\ call.arg[13] = Num(110)
    /\ call.ret.cpi_yoy[13] # NoValue
    /\ call.ret.gdp_yoy[5] # NoValue /\ call.ret.gdp_qoq[2] # NoValue

-----------------------------------------------------------------------------
(* The watermark after a reinitialization, and appending twice *)

\* What the updater of tab leaves of a sheet without values, under the
\* providers' present answers: the run of a table that has no watermark.
FreshRun(tab) ==
    IF tab = TAB_DAILY
    THEN update_daily(Blank, upstream.fred, now, NoFail).grid
    ELSE IF tab = TAB_WEEKLY
    THEN update_weekly_ofr(Blank, upstream.ofr, NoFail).grid
    ELSE IF tab = TAB_MONTHLY
    THEN update_monthly_rates(Blank, upstream, NoFail).grid
    ELSE update_quarterly_rates(Blank, upstream.gdp, NoFail).grid

\* C21 Watermark after reinitialization: a run that reinitializes a table
\* because of a header mismatch goes on as a run of an empty table does: its
\* window starts at the default start and no fetched row is filtered out by
\* the last date the table had before, so it leaves the table a run on an
\* empty sheet leaves.
C21_ReinitForgetsWatermark ==
    [][\A tab \in Tabs :
          (IsRunOf(tab) /\ run'.reinit /\ run'.status = "returned") =>
              sheets'[tab] = FreshRun(tab)]_vars

AppendTabs == {TAB_WEEKLY, TAB_MONTHLY, TAB_QUARTERLY}

\* The rows a step appends to the table of tab (none when the step replaces
\* rows of the table).
Appended(tab) ==
    IF Len(sheets'[tab]) > Len(sheets[tab]) /\ Len(sheets[tab]) >= 1
    THEN SubSeq(sheets'[tab], Len(sheets[tab]) + 1, Len(sheets'[tab]))
    ELSE << >>

\* C22 Append idempotence: for the weekly, monthly and quarterly tables, a
\* second run under the same provider answers appends no row, and no run
\* appends a row dated at or before the watermark it read.
C22_AppendIdempotence ==
    [][\A tab \in AppendTabs :
          (IsRunOf(tab) /\ run'.status = "returned") =>
              /\ (run.tab = tab /\ run.status = "returned") =>
                    sheets'[tab] = sheets[tab]
              /\ ToDatetime(Watermark(sheets[tab])) # NaT =>
                    \A j \in DOMAIN Appended(tab) :
                        ToDatetime(Appended(tab)[j][1]) # NaT =>
                            TsLess(ToDatetime(Watermark(sheets[tab])),
                                   ToDatetime(Appended(tab)[j][1]))]_vars

-----------------------------------------------------------------------------
(* update_daily after a pause between runs *)

MaxPause == 29      \* the longest time without a run, in days

PauseDays == {14, 15}

\* A table a run of an earlier day has left: one row, of the day before the
\* first day FRED holds here.
SeededDaily ==
    << DailyHeaders,
       <<Strftime(AddDays(DailyBase, 0 - 1))>> \o [i \in DOMAIN DailyCols |-> "1"] >>

\* No run is started for k days.
Pause ==
    /\ pc = TAB_DAILY
    /\ upstream = Unsettled
    /\ \E k \in PauseDays :
          /\ TsLeq(AddDays(now, k), AddDays(Today0, MaxPause))
          /\ now' = AddDays(now, k)
    /\ UNCHANGED <<sheets, upstream, pc, run, call>>

InitPause ==
    /\ pc = TAB_DAILY
    /\ sheets \in {[t \in Tabs |-> IF t = pc THEN g ELSE Blank] :
                     g \in {Blank, SeededDaily}}
    /\ upstream = Unsettled
    /\ now = Today0
    /\ run = NoRun
    /\ call = NoCall

NextPause == UpdateDaily \/ SettleFred \/ Elapse \/ Pause

SpecPause == InitPause /\ [][NextPause]_vars

\* The days FRED holds an observation of, for some series that answers.
Published(fred) ==
    {DayAt(k) : k \in UNION {IF fred[sid].up THEN fred[sid].lo..fred[sid].hi ELSE {} :
                               sid \in SeriesIds}}

\* C23 No gap after a pause: after a committed incremental run of
\* update_daily, every day FRED holds that is later than the watermark the
\* table had before the run is a row of the table.
C23_NoGapAfterPause ==
    [][(/\ IsRunOf(TAB_DAILY) /\ run'.committed /\ ~run'.reinit
        /\ Watermark(sheets[TAB_DAILY]) # NoDate) =>
          \A t \in Published(upstream.fred) :
              TsLess(ToDatetime(Watermark(sheets[TAB_DAILY])), t) =>
                  Strftime(t) \in DatesOf(sheets'[TAB_DAILY])]_vars

-----------------------------------------------------------------------------
(* The watermark as the latest period of the table *)

\* C24 The watermark that get_header_and_last_date returns for a table is the
\* latest Date among the table's rows, and there is none exactly when the
\* table has no data row.
C24_WatermarkIsMax ==
    \A tab \in Tabs :
        /\ (Watermark(sheets[tab]) = NoDate) <=> (Len(sheets[tab]) < 2)
        /\ Watermark(sheets[tab]) # NoDate =>
              \A d \in DatesOf(sheets[tab]) :
                  ToDatetime(d) # NaT =>
                      TsLeq(ToDatetime(d), ToDatetime(Watermark(sheets[tab])))

-----------------------------------------------------------------------------
(* The requests and the data write of one run, step by step *)

RECURSIVE MomRequests(_, _, _)
\* The MoM requests for one area from candidate i on: the loop over GM, GP,
\* GR is left at the first candidate that answers with observations.
MomRequests(i, area, byCode) ==
    IF i > Len(MOM_CODES) THEN << >>
    ELSE LET r == fetch_oecd_g20_cpi_rate_one(byCode[MOM_CODES[i]])
         IN  <<"oecd:" \o area \o ":" \o MOM_CODES[i]>>
             \o (IF ~r.exc /\ r.s.idx # {} THEN << >>
                 ELSE MomRequests(i + 1, area, byCode))

RECURSIVE CpiRequests(_, _)
\* The requests of the CPI block from country i on: GY, then the MoM loop.
CpiRequests(i, cpi) ==
    IF i > Len(ccy_list) THEN << >>
    ELSE <<"oecd:" \o OECD_LOC[i][2] \o ":GY">>
         \o MomRequests(1, OECD_LOC[i][2], cpi[OECD_LOC[i][2]])
         \o CpiRequests(i + 1, cpi)

RECURSIVE EcosRequests(_, _)
\* The requests of the ECOS block from item i on: an exception leaves the
\* block, so that the items after it are not requested.
EcosRequests(i, ecos) ==
    IF BOK_API_KEY = "" \/ i > Len(ECOS_POLICY_ITEM) THEN << >>
    ELSE <<"ecos:" \o ECOS_POLICY_ITEM[i][2]>>
         \o (IF ecos_stat_search(ecos[ECOS_POLICY_ITEM[i][2]]).exc THEN << >>
             ELSE EcosRequests(i + 1, ecos))

\* The requests an updater sends to its providers, in the order of its code.
Requests(tab, up) ==
    IF tab = TAB_DAILY
    THEN [i \in DOMAIN DAILY_FRED_SERIES |-> "fred:" \o DAILY_FRED_SERIES[i][1]]
    ELSE IF tab = TAB_WEEKLY THEN <<"ofr:multifull">>
    ELSE IF tab = TAB_MONTHLY
    THEN CpiRequests(1, up.cpi) \o <<"oecd:unemployment", "ecb:dfr">>
         \o EcosRequests(1, up.ecos)
    ELSE <<"oecd:gdp">>

\* The updater of tab applied to a table.
RunOn(tab, grid) ==
    IF tab = TAB_DAILY THEN update_daily(grid, upstream.fred, now, NoFail)
    ELSE IF tab = TAB_WEEKLY THEN update_weekly_ofr(grid, upstream.ofr, NoFail)
    ELSE IF tab = TAB_MONTHLY THEN update_monthly_rates(grid, upstream, NoFail)
    ELSE update_quarterly_rates(grid, upstream.gdp, NoFail)

HeadersOf(tab) ==
    IF tab = TAB_DAILY THEN DailyHeaders
    ELSE IF tab = TAB_WEEKLY THEN WeeklyHeaders
    ELSE IF tab = TAB_MONTHLY THEN MonthlyHeaders
    ELSE QuarterlyHeaders

Settled(tab) ==
    IF tab = TAB_DAILY THEN upstream.fred # << >>
    ELSE IF tab = TAB_WEEKLY THEN upstream.ofr # << >>
    ELSE IF tab = TAB_MONTHLY THEN upstream.cpi # << >>
    ELSE upstream.gdp # << >>

\* The events that end the requests of a run: the data write, or the return
\* without one.
DataWrite == "write"

NoWrite == "return"

\* Mutant: the data write is issued while requests are still to be sent.
FetchesDone_Any(tab, events) == TRUE

\* The statements that write the data come after the fetch loops.
FetchesDone(tab, events) == events = Requests(tab, upstream)

\* The head of an updater: the table is read, and cleared to the canonical
\* header when its header differs.
BeginRun ==
    /\ pc \in Tabs
    /\ call = NoCall
    /\ Settled(pc)
    /\ Len(sheets[pc]) <= MaxRows
    /\ sheets' = [sheets EXCEPT ![pc] =
                    IF get_header_and_last_date(sheets[pc]).header # HeadersOf(pc)
                    THEN Reinit(sheets[pc], HeadersOf(pc)) ELSE sheets[pc]]
    /\ call' = [fn |-> pc, arg |-> sheets[pc], ret |-> << >>]
    /\ UNCHANGED <<upstream, now, pc, run>>

\* One request of the fetch loops.
FetchStep ==
    /\ call.fn = pc
    /\ DataWrite \notin Range(call.ret) /\ NoWrite \notin Range(call.ret)
    /\ Len(call.ret) < Len(Requests(pc, upstream))
    /\ call' = [call EXCEPT !.ret = Append(call.ret, Requests(pc, upstream)[Len(call.ret) + 1])]
    /\ UNCHANGED <<sheets, upstream, now, pc, run>>

\* The tail of an updater: the rows are written, or the run returns without
\* writing.
WriteStep ==
    /\ call.fn = pc
    /\ DataWrite \notin Range(call.ret) /\ NoWrite \notin Range(call.ret)
    /\ FetchesDone(pc, call.ret)
    /\ LET Effect(o) ==
               /\ sheets' = [sheets EXCEPT ![pc] = o.grid]
               /\ run' = [tab |-> pc, status |-> o.status, reinit |-> o.reinit,
                          committed |-> o.committed, log |-> o.log,
                          filled |-> FALSE,
                          repeat |-> (run.tab = pc /\ run.status = "returned"),
                          fail |-> NoFail,
                          last0 |-> get_header_and_last_date(call.arg).last]
               /\ call' = [call EXCEPT !.ret =
                             Append(call.ret, IF o.committed THEN DataWrite ELSE NoWrite)]
       IN  Effect(RunOn(pc, call.arg))
    /\ UNCHANGED <<upstream, now, pc>>

EndRun ==
    /\ call.fn = pc
    /\ DataWrite \in Range(call.ret) \/ NoWrite \in Range(call.ret)
    /\ call' = NoCall
    /\ UNCHANGED <<sheets, upstream, now, pc, run>>

NextSchedule == call = NoCall /\ Elapse

\* MoM answers of one country in which more than one candidate holds
\* observations.
MomSeveral ==
    {<<CpiFull("GM"), CpiFull("GP"), Down>>, <<Empty, CpiFull("GP"), CpiFull("GR")>>}

\* What the OECD serves during this scheduling period when several MoM
\* candidates of the first country hold observations while its YoY request
\* answers or fails.
SettleMom ==
    /\ pc = TAB_MONTHLY
    /\ upstream = Unsettled
    /\ \E mom \in MomSeveral, gy \in {CpiFull("GY"), Down} :
          upstream' = [upstream EXCEPT
                         !.cpi = [MonthlyFull.cpi EXCEPT
                                     ![OECD_LOC[1][2]] = CpiOfArea(gy, mom)],
                         !.une = MonthlyFull.une, !.ecb = MonthlyFull.ecb,
                         !.ecos = MonthlyFull.ecos]
    /\ UNCHANGED <<sheets, now, pc, run, call>>

NextSteps ==
    \/ SettleFred \/ SettleOfr \/ SettleMonthly \/ SettleGdp \/ SettleMom
    \/ BeginRun \/ FetchStep \/ WriteStep \/ EndRun \/ NextSchedule

SpecSteps == InitTables /\ [][NextSteps]_vars

\* C25 In every run and for every table the data write comes after all the
\* requests of that run, and a run issues at most one data write.
C25_WriteAfterFetches ==
    call.fn \in Tabs =>
        /\ Cardinality({i \in DOMAIN call.ret : call.ret[i] = DataWrite}) <= 1
        /\ \A i \in DOMAIN call.ret :
              call.ret[i] = DataWrite =>
                  /\ i = Len(call.ret)
                  /\ SubSeq(call.ret, 1, i - 1) = Requests(call.fn, upstream)

\* A monthly run has written its rows after a MoM request fell back to a
\* second candidate.
C25_Witness ==
    /\ call.fn = TAB_MONTHLY
    /\ DataWrite \in Range(call.ret)
    /\ "oecd:USA:GP" \in Range(call.ret)

-----------------------------------------------------------------------------
(* The order of the requests *)

\* The orders in which n requests can be sent.
Perms(n) == {f \in [1..n -> 1..n] : \A a, b \in 1..n : f[a] = f[b] => a = b}

RECURSIVE PullDailyIn(_, _, _, _, _)
\* The fetch loop of update_daily with the series taken in another order.
PullDailyIn(order, k, fred, start, df) ==
    IF k > Len(order) THEN df
    ELSE LET sid == DAILY_FRED_SERIES[order[k]][1]
             col == DAILY_FRED_SERIES[order[k]][2]
         IN  IF ~fred[sid].up THEN PullDailyIn(order, k + 1, fred, start, df)
             ELSE LET s == get_series(fred[sid], start)
                  IN  IF s.idx = {} THEN PullDailyIn(order, k + 1, fred, start, df)
                      ELSE PullDailyIn(order, k + 1, fred, start,
                                       JoinInto(df, ToFrame(s, col)))

\* The table update_daily writes when its loop takes the series in order.
DailyTableIn(order, grid, fred, today) ==
    LET Written(g1, pulled) ==
            IF IsEmpty(pulled) THEN g1
            ELSE UpdateValues(Clear(g1),
                              <<DailyHeaders>> \o ToRows(MergeDaily(df_existing(g1), pulled)))
    IN  Written(IF get_header_and_last_date(grid).header # DailyHeaders
                THEN AppendRows(Clear(grid), <<DailyHeaders>>) ELSE grid,
                PullDailyIn(order, 1, fred, PullStart(today), NoFrame))

\* What each of the four source blocks of update_monthly_rates joins into
\* combined (nothing when the block fails or is empty): CPI, unemployment,
\* ECB, ECOS.
MonthlyBlocks(up) ==
    LET Ecb(dfr, dfr_m) ==
            IF dfr.exc \/ dfr.s.idx = {} THEN NoFrame
            ELSE Frame(dfr_m.idx, <<"EA_PolicyRate", "DE_PolicyRate">>,
                       LAMBDA t, col : dfr_m.at[t])
        Ecos(pol) == IF pol.exc THEN NoFrame ELSE pol.df
        EcbOf(dfr) == Ecb(dfr, ResampleMonthLast(dfr.s))
    IN  << CpiLoop(1, up.cpi, NoFrame),
           IF up.une.up THEN UnemploymentFrame(up.une.rows) ELSE NoFrame,
           EcbOf(ecb_get_series_csv(up.ecb)),
           Ecos(IF BOK_API_KEY = "" THEN [exc |-> FALSE, df |-> NoFrame]
                ELSE EcosLoop(1, up.ecos, NoFrame)) >>

RECURSIVE CombineIn(_, _, _, _)
\* combined of update_monthly_rates with the source blocks run in order.
CombineIn(order, k, blocks, combined) ==
    IF k > Len(order) THEN combined
    ELSE CombineIn(order, k + 1, blocks,
                   IF IsEmpty(blocks[order[k]]) THEN combined
                   ELSE JoinInto(combined, blocks[order[k]]))

\* The table update_monthly_rates leaves when its blocks run in order.
MonthlyTableIn(order, grid, blocks) ==
    LET Written(hs, reinit) ==
            Finalize(IF reinit THEN Reinit(grid, MonthlyHeaders) ELSE grid,
                     CombineIn(order, 1, blocks, NoFrame), hs.last, MonthlyCols,
                     reinit, {}, NoFail).grid
        Checked(hs) == Written(hs, hs.header # MonthlyHeaders)
    IN  Checked(get_header_and_last_date(grid))

\* C26 Order independence: the table a run writes is the table it would
\* write with the daily FRED series, or the monthly source blocks, taken in
\* any other order: the same rows and the same columns in the same order.
C26_OrderIndependence ==
    [][/\ (IsRunOf(TAB_DAILY) /\ run'.status = "returned") =>
            \A order \in Perms(Len(DAILY_FRED_SERIES)) :
                sheets'[TAB_DAILY]
                   = DailyTableIn(order, sheets[TAB_DAILY], upstream.fred, now)
       /\ (IsRunOf(TAB_MONTHLY) /\ run'.status = "returned") =>
            \A order \in Perms(4) :
                sheets'[TAB_MONTHLY]
                   = MonthlyTableIn(order, sheets[TAB_MONTHLY], MonthlyBlocks(upstream))]_vars

\* A monthly run has appended a row that holds values of two source blocks.
C26_Witness ==
    /\ run.tab = TAB_MONTHLY /\ run.committed
    /\ \E i \in 2..Len(sheets[TAB_MONTHLY]) :
          /\ SheetCell(sheets[TAB_MONTHLY], sheets[TAB_MONTHLY][i][1], "US_CPI_YoY") # ""
          /\ SheetCell(sheets[TAB_MONTHLY], sheets[TAB_MONTHLY][i][1], "US_PolicyRate") # ""

-----------------------------------------------------------------------------
(* Two runs against one table *)

Runners == {1, 2}

\* A runner that is not between its read and its write.
Idle == [busy |-> FALSE, base |-> 0, out |-> << >>, committed |-> FALSE,
         reinit |-> FALSE]

\* What a runner holds between reading the table and writing to it: the
\* number of rows it saw after the header check and the table it computed
\* from what it read and fetched.
Pending(o, g1) ==
    [busy |-> TRUE, base |-> Len(g1), out |-> o.grid, committed |-> o.committed,
     reinit |-> o.reinit]

\* Runner r reads the table (clearing it to the canonical header when the
\* header differs) and fetches. The runs are followed up to the first two
\* that overlap.
ReadState(r) ==
    /\ pc \in Tabs
    /\ Settled(pc)
    /\ ~call.arg[r].busy
    /\ ~call.ret
    /\ Len(sheets[pc]) <= MaxRows
    /\ LET Step(g1) ==
               /\ sheets' = [sheets EXCEPT ![pc] = g1]
               /\ call' = [call EXCEPT
                             !.arg[r] = Pending(RunOn(pc, sheets[pc]), g1),
                             !.ret = call.ret \/ \E q \in Runners : call.arg[q].busy]
       IN  Step(IF get_header_and_last_date(sheets[pc]).header # HeadersOf(pc)
                THEN Reinit(sheets[pc], HeadersOf(pc)) ELSE sheets[pc])
    /\ UNCHANGED <<upstream, now, pc, run>>

\* Runner r writes: update_daily clears the sheet and writes its table, the
\* other updaters append their new rows to the sheet as it is now.
WriteState(r) ==
    /\ pc \in Tabs
    /\ call.arg[r].busy
    /\ sheets' = [sheets EXCEPT ![pc] =
                    IF ~call.arg[r].committed THEN sheets[pc]
                    ELSE IF pc = TAB_DAILY THEN call.arg[r].out
                    ELSE AppendRows(sheets[pc],
                                    SubSeq(call.arg[r].out, call.arg[r].base + 1,
                                           Len(call.arg[r].out)))]
    /\ call' = [call EXCEPT !.arg[r] = Idle]
    /\ UNCHANGED <<upstream, now, pc, run>>

InitOverlap ==
    /\ pc \in Tabs
    /\ sheets \in {[t \in Tabs |-> IF t = pc THEN g ELSE Blank] :
                     g \in {Blank, Legacy(pc)}}
    /\ upstream = Unsettled
    /\ now = Today0
    /\ run = NoRun
    /\ call = [fn |-> "runs", arg |-> [r \in Runners |-> Idle], ret |-> FALSE]

\* The providers' content changes between two runs, or between the read of
\* one run and the read of the run that overlaps it.
Publish ==
    /\ ~call.ret
    /\ \E r \in Runners : ~call.arg[r].busy
    /\ Elapse

NextOverlap ==
    \/ SettleFred \/ SettleOfr \/ SettleMonthly \/ SettleGdp \/ Publish
    \/ \E r \in Runners : ReadState(r)
    \/ \E r \in Runners : WriteState(r)

SpecOverlap == InitOverlap /\ [][NextOverlap]_vars

\* One Date per row, ascending, and no Date twice.
DatesAscend(grid) ==
    /\ \A i \in 2..Len(grid) : ToDatetime(grid[i][1]) # NaT
    /\ \A i \in 2..(Len(grid) - 1) :
          (ToDatetime(grid[i][1]) # NaT /\ ToDatetime(grid[i + 1][1]) # NaT) =>
              TsLess(ToDatetime(grid[i][1]), ToDatetime(grid[i + 1][1]))

\* C27 Reading the state and writing later is safe without overlap: as long
\* as no run has read the table between the read and the write of another
\* run, the dates of the table are unique and ascending, and a write that
\* follows no reinitialization keeps every date the table had.
C27_SerializedSafe ==
    [][~call'.ret =>
          /\ DatesAscend(sheets'[pc])
          /\ \A r \in Runners :
                (call.arg[r].busy /\ ~call'.arg[r].busy /\ ~call.arg[r].reinit) =>
                    DatesOf(sheets[pc]) \subseteq DatesOf(sheets'[pc])]_vars

-----------------------------------------------------------------------------
(* The cutover date of the 2Y hybrid *)

\* C28 The cutover: switch_date is the earliest timestamp of the primary and
\* has no part in the splice: at every timestamp, before or after it, the
\* hybrid takes the primary's value where the primary has one and the
\* fallback's elsewhere.
C28_CutoverOnlyAnnotates ==
    call.fn = "fetch_yield_matrix_final" =>
        /\ IsEmpty(call.arg.ktb) => call.switch_date = None
        /\ ~IsEmpty(call.arg.ktb) =>
              /\ call.switch_date \in call.arg.ktb.idx
              /\ \A t \in call.arg.ktb.idx : TsLeq(call.switch_date, t)
        /\ \A t \in SpliceDays :
              /\ At(call.arg.ktb, t, "2Y") # NaN =>
                    At(call.ret, t, "2Y") = At(call.arg.ktb, t, "2Y")
              /\ At(call.arg.ktb, t, "2Y") = NaN =>
                    At(call.ret, t, "2Y") = At(call.arg.msb, t, "2Y")

\* The hybrid holds a value of the fallback dated before switch_date, the
\* primary's value at switch_date, and a value of the fallback dated after it.
C28_Witness ==
    /\ call.fn = "fetch_yield_matrix_final"
    /\ ~IsEmpty(call.arg.ktb)
    /\ At(call.ret, call.switch_date, "2Y") = At(call.arg.ktb, call.switch_date, "2Y")
    /\ At(call.ret, call.switch_date, "2Y") # NaN
    /\ \E t, u \in call.arg.msb.idx :
          /\ TsLess(t, call.switch_date) /\ TsLess(call.switch_date, u)
          /\ At(call.ret, t, "2Y") # NaN /\ At(call.ret, u, "2Y") # NaN
          /\ At(call.arg.ktb, u, "2Y") = NaN

-----------------------------------------------------------------------------
(* The frame plot_macro_charts is given *)

MaxQuarters == 6    \* quarters of GDP levels that FRED may hold

period_options == {180, 365, 1095, 1825, 3650}

\* The first day of the k-th month from January 2023 on.
MonthStart(k) == <<2023 + ((k - 1) \div 12), ((k - 1) % 12) + 1, 1>>

\* get_fred_data(code): the observations of a series by date, none when the
\* request fails.
FredData(dates, level(_)) == [idx |-> dates, at |-> [t \in dates |-> level(t)]]

\* What FRED holds of a quarterly GDP level: the first nq quarters.
GdpLevels ==
    UNION {{FredData({MonthStart(3 * q - 2) : q \in 1..nq},
                     LAMBDA t : Num(lv[((t[1] - 2023) * 12 + t[2] + 2) \div 3])) :
              lv \in [1..nq -> {100, 110}]} : nq \in 0..MaxQuarters}

\* What FRED holds of a monthly CPI level: nothing, or every month.
CpiLevels ==
    {FredData({MonthStart(k) : k \in 1..nm}, LAMBDA t : Num(100 + 10 * (t[1] - 2023))) :
       nm \in {0, 3 * MaxQuarters}}

\* What FRED holds of a policy rate: nothing, or two days in mid-month.
RateLevels ==
    {FredData({<<2023, m, 15>> : m \in 1..nd}, LAMBDA t : Num(3)) : nd \in {0, 2}}

\* tail(n): the last n rows.
tail(s, n) == IF Len(s) <= n THEN s ELSE SubSeq(s, Len(s) - n + 1, Len(s))

\* pd.concat(series_list, axis=1).ffill().tail(days_to_show): the dates of
\* all the series that are not empty, ascending, and each column filled
\* forward along them.
country_df(gdp, cpi, rate, days) ==
    LET Col(index, s) ==
            tail(Ffill([j \in DOMAIN index |->
                           IF index[j] \in s.idx THEN s.at[index[j]] ELSE NoValue]), days)
        Built(index) ==
            [index |-> tail(index, days),
             GDP_YoY |-> Col(index, gdp), CPI_YoY |-> Col(index, cpi),
             Rate |-> Col(index, rate)]
    IN  Built(SortIndex(gdp.idx \cup cpi.idx \cup rate.idx))

\* One country tab of the macro dashboard: the series are fetched, joined
\* into one frame and given to plot_macro_charts, which draws a growth series
\* for each level column that is in the frame.
MacroTab ==
    /\ pc = "app"
    /\ call = NoCall
    /\ LET Plot(df, has_gdp, has_cpi) ==
               call' = [fn |-> "macro_tab", arg |-> df,
                        ret |-> [gdp_yoy |-> IF has_gdp THEN pct_change(df.GDP_YoY, 4)
                                             ELSE << >>,
                                 cpi_yoy |-> IF has_cpi THEN pct_change(df.CPI_YoY, 12)
                                             ELSE << >>]]
       IN  \E gdp \in GdpLevels, cpi \in CpiLevels, rate \in RateLevels,
              days \in period_options :
              /\ gdp.idx \cup cpi.idx \cup rate.idx # {}
              /\ Plot(country_df(gdp, cpi, rate, days), gdp.idx # {}, cpi.idx # {})
    /\ UNCHANGED <<sheets, upstream, now, pc, run>>

NextMacro == MacroTab \/ Rerun

SpecMacro == InitApp /\ [][NextMacro]_vars

YearBefore(t) == <<t[1] - 1, t[2], t[3]>>

\* C29 The YoY series of plot_macro_charts set each level against the level
\* one year earlier: in the frame it is given, the row 4 rows (GDP) or 12
\* rows (CPI) before a row is dated one year before it.
C29_YoYOneYearBack ==
    call.fn = "macro_tab" =>
        /\ \A j \in DOMAIN call.ret.gdp_yoy :
              call.ret.gdp_yoy[j] # NoValue =>
                  call.arg.index[j - 4] = YearBefore(call.arg.index[j])
        /\ \A j \in DOMAIN call.ret.cpi_yoy :
              call.ret.cpi_yoy[j] # NoValue =>
                  call.arg.index[j - 12] = YearBefore(call.arg.index[j])

-----------------------------------------------------------------------------
(* The candidate codes of CPI MoM *)

\* A candidate answers with observations.
Answers(resp) ==
    /\ ~fetch_oecd_g20_cpi_rate_one(resp).exc
    /\ fetch_oecd_g20_cpi_rate_one(resp).s.idx # {}

\* The first candidate of GM, GP, GR that answers with observations, if any.
FirstAnswering(byCode) ==
    {j \in DOMAIN MOM_CODES :
        /\ Answers(byCode[MOM_CODES[j]])
        /\ \A k \in 1..(j - 1) : ~Answers(byCode[MOM_CODES[k]])}

\* The MoM requests for area among the events of a run, in their order.
MomAsked(events, area) ==
    SelectSeq(events,
              LAMBDA e : e \in {"oecd:" \o area \o ":" \o MOM_CODES[j] : j \in DOMAIN MOM_CODES})

\* The cell a series gives to the row of date d.
CellFrom(s, d) ==
    IF ToDatetime(d) \in s.idx THEN Fillna(s.at[ToDatetime(d)]) ELSE ""

\* C30 The fallback of CPI MoM: for every country the candidates GM, GP, GR
\* are requested in this order up to the first that answers with
\* observations and no further; the rows the run appends hold that
\* candidate's series in the MoM column; when no candidate answers, the MoM
\* column of the appended rows is empty and the YoY column of the country
\* still holds the YoY series.
C30_MomFallback ==
    [][(/\ call.fn = TAB_MONTHLY /\ call'.fn = TAB_MONTHLY
        /\ call'.ret \in {Append(call.ret, DataWrite), Append(call.ret, NoWrite)}) =>
          \A i \in DOMAIN OECD_LOC :
             LET area == OECD_LOC[i][2]
                 first == FirstAnswering(upstream.cpi[area])
                 n == IF first = {} THEN Len(MOM_CODES) ELSE CHOOSE j \in first : TRUE
                 new == (Len(sheets[TAB_MONTHLY]) + 1)..Len(sheets'[TAB_MONTHLY])
             IN  /\ MomAsked(call.ret, area)
                      = [j \in 1..n |-> "oecd:" \o area \o ":" \o MOM_CODES[j]]
                 /\ \A r \in new :
                       CellOf(sheets'[TAB_MONTHLY], r, OECD_LOC[i][1] \o "_CPI_MoM")
                          = IF first = {} THEN ""
                            ELSE CellFrom(fetch_oecd_g20_cpi_rate_one(
                                              upstream.cpi[area][MOM_CODES[n]]).s,
                                          sheets'[TAB_MONTHLY][r][1])
                 /\ first = {} =>
                       \A r \in new :
                          CellOf(sheets'[TAB_MONTHLY], r, OECD_LOC[i][1] \o "_CPI_YoY")
                             = CellFrom(fetch_oecd_g20_cpi_rate_one(
                                            upstream.cpi[area]["GY"]).s,
                                        sheets'[TAB_MONTHLY][r][1])]_vars

\* A monthly run has appended rows with a MoM value of the United States
\* after GM came back empty and GP answered, GR, which would have answered
\* too, not being requested.
C30_Witness ==
    /\ call.fn = TAB_MONTHLY
    /\ DataWrite \in Range(call.ret)
    /\ ~Answers(upstream.cpi["USA"]["GM"])
    /\ Answers(upstream.cpi["USA"]["GP"]) /\ Answers(upstream.cpi["USA"]["GR"])
    /\ "oecd:USA:GR" \notin Range(call.ret)
    /\ \E r \in 2..Len(sheets[TAB_MONTHLY]) :
          CellOf(sheets[TAB_MONTHLY], r, "US_CPI_MoM") # ""

=============================================================================
